---------------------------- MODULE Spec2Model ----------------------------
(***************************************************************************)
(* A model of the virtual-memory core of the kernel and of two of its      *)
(* sockets:                                                                *)
(*                                                                         *)
(*   - the physical frame allocator                                        *)
(*       (framework/jinux-frame/src/vm/frame_allocator.rs),                *)
(*   - VmSpace activation on CPUs, cursors, copy-on-write fork             *)
(*       (ostd/src/mm/vm_space.rs),                                        *)
(*   - the backlog of a listening Unix stream socket                       *)
(*       (kernel/src/net/socket/unix/stream/listener.rs),                  *)
(*   - the binding of a datagram socket                                    *)
(*       (kernel/src/net/socket/ip/datagram/mod.rs).                       *)
(*                                                                         *)
(* The module holds one set of variables and several specifications, one   *)
(* per subsystem; a specification leaves the other subsystems' variables   *)
(* at their initial values:                                                *)
(*                                                                         *)
(*   SpecAlloc     the frame allocator                                     *)
(*   SpecActivate  VmSpace::activate on several CPUs                       *)
(*   SpecVm        cursors, page-table contents, fork, frame ownership     *)
(***************************************************************************)
EXTENDS Integers, Sequences, FiniteSets, TLC

VARIABLES
    \* ---- frame allocator ------------------------------------------------
    FRAME_ALLOCATOR,  \* the Once cell: empty, or the buddy allocator's free lists
    handles,          \* live VmFrame handles per frame index
    zeroing,          \* frames taken by an alloc_zero() that has not zeroed them yet
    zeroed,           \* held frames whose contents are known to be all-zero
    panicked,         \* the kernel has aborted (unwrap on None, failed assert)
    ret,              \* the last call that returned: operation, argument, value
    \* ---- VmSpace activation ---------------------------------------------
    strong,           \* Arc<VmSpace> strong count per VmSpace (0: not allocated)
    owned,            \* the VmSpaces a process holds an Arc of
    activated_cpus,   \* per VmSpace, the CPUs it is activated on
    activated_cpus_lock, \* per VmSpace, the CPU holding the SpinLock (NoCpu: free)
    LAST_ACTIVATED_VM_SPACE, \* per CPU, the last activated VmSpace (NULL: kernel)
    current_page_table, \* per CPU, the table in the hardware root register
    pc,               \* per CPU, where its activate() call stands
    self,             \* per CPU, the VmSpace of its latest activate() call
    last,             \* per CPU, last_ptr of its latest activate() call
    programmed,       \* per CPU, whether that call wrote the root register
    \* ---- VmSpace contents and cursors -----------------------------------
    pt,               \* per VmSpace, the user page table: slot -> mapping
    page_fault_handler, \* per VmSpace, the Once cell of the fault handler
    th,               \* per thread: its cursor, its frame handle, the outcome
                      \* of its latest cursor(), map, unmap, clear or fork call
    trace,            \* the calls observed so far, in the order they returned,
                      \* each with its arguments and effects
    \* ---- the backlog of a listening Unix socket -------------------------
    incoming_conns,   \* Backlog.incoming_conns: the queue of pending connections
    incoming_conns_lock, \* the thread holding its Mutex (NoThread: free)
    pollee,           \* Backlog.pollee: the IoEvents that are set
    backlog,          \* Backlog.backlog: the limit of the queue (AtomicUsize)
    pairs,            \* the connection pairs Connected::new_pair has made
    \* ---- the binding of a datagram socket ------------------------------
    inner,            \* DatagramSocket.inner: Inner::Unbound or Inner::Bound
    inner_lock,       \* the thread holding its RwLock for writing (NoThread:
                      \* none; a reader holds it within one step only)
    bindings,         \* the BoundDatagrams UnboundDatagram::bind has made
    call              \* per thread: the socket call it is in and its result

allocVars == <<FRAME_ALLOCATOR, handles, zeroing, zeroed, panicked, ret>>

activateVars == <<strong, owned, activated_cpus, activated_cpus_lock,
                  LAST_ACTIVATED_VM_SPACE, current_page_table, pc, self, last,
                  programmed>>

vmVars == <<pt, page_fault_handler, th, trace>>

listenerVars == <<incoming_conns, incoming_conns_lock, pollee, backlog, pairs>>

datagramVars == <<inner, inner_lock, bindings>>

netVars == <<listenerVars, datagramVars, call>>

vars == <<allocVars, activateVars, vmVars, netVars>>

\* Option<T>: None is the empty sequence and Some(x) is <<x>>.
None == <<>>
Some(x) == <<x>>
Unwrap(o) == o[1]

(***************************************************************************)
(* Program constants.                                                      *)
(***************************************************************************)
PAGE_SIZE == 4096
\* FrameAllocator::<32>: the number of size classes of the buddy allocator.
ORDER == 32

(***************************************************************************)
(* Bounds of the model.                                                    *)
(***************************************************************************)
\* Physical frame indexes are 0 .. MaxFrames-1.
MaxFrames == 4
\* alloc_continuous is called with frame_count in 0 .. MaxCount.
MaxCount == 3
\* VmSpaces are 1 .. MaxSpaces.
MaxSpaces == 2
\* CPUs are 0 .. MaxCpus-1.
MaxCpus == 2
\* Frames are mapped on the first MaxPages pages of the user address range.
MaxPages == 2
\* The user address range is [0, UserPages * PAGE_SIZE).
UserPages == 34
\* Kernel threads that use cursors are 1 .. MaxThreads.
MaxThreads == 2
\* Page-fault handler functions are 1 .. MaxHandlers.
MaxHandlers == 2
\* Page faults carry a CpuExceptionInfo in 1 .. MaxInfos.
MaxInfos == 2
\* At most MaxFaultTrace calls about page faults are recorded in the trace.
MaxFaultTrace == 4
\* At most MaxIterTrace next() calls of one Cursor are recorded in the trace.
MaxIterTrace == 4
\* At most MaxPairTrace calls of two concurrent CursorMuts are recorded.
MaxPairTrace == 3
\* At most MaxTrace calls through a CursorMut are recorded in the trace.
MaxTrace == 3
\* The threads that call into a socket are 1 .. MaxNetThreads.
MaxNetThreads == 2
\* listen() is called with a backlog in 0 .. MaxBacklog.
MaxBacklog == 2
\* Connected::new_pair makes at most MaxPairs connection pairs.
MaxPairs == 3
\* The VmSpaces draw their frames from a usable region of MaxVmFrames frames.
MaxVmFrames == 2
\* The threads that map and unmap frames are 1 .. MaxVmThreads.
MaxVmThreads == 1

Frames == 0 .. (MaxFrames - 1)

Min(a, b) == IF a <= b THEN a ELSE b
SetMin(S) == CHOOSE x \in S : \A y \in S : x <= y

(***************************************************************************)
(* The buddy allocator (crate buddy_system_allocator, FrameAllocator).     *)
(* free_list[c] is the set of the starts of the free blocks of 2^c frames. *)
(***************************************************************************)
RECURSIVE Pow2(_)
Pow2(c) == IF c = 0 THEN 1 ELSE 2 * Pow2(c - 1)

\* usize::next_power_of_two: the least power of two >= n (1 for n = 0).
RECURSIVE NextPow2From(_, _)
NextPow2From(n, p) == IF p >= n THEN p ELSE NextPow2From(n, 2 * p)
next_power_of_two(n) == NextPow2From(n, 1)

\* prev_power_of_two: the greatest power of two <= n, n >= 1.
RECURSIVE PrevPow2From(_, _)
PrevPow2From(n, p) == IF 2 * p > n THEN p ELSE PrevPow2From(n, 2 * p)
prev_power_of_two(n) == PrevPow2From(n, 1)

\* usize::trailing_zeros of a power of two.
RECURSIVE trailing_zeros(_)
trailing_zeros(size) == IF size <= 1 THEN 0 ELSE 1 + trailing_zeros(size \div 2)

\* x & (!x + 1): the lowest set bit of x, x > 0.
RECURSIVE lowbit(_)
lowbit(x) == IF x % 2 = 1 THEN 1 ELSE 2 * lowbit(x \div 2)

EmptyFreeList == [c \in 0 .. (ORDER - 1) |-> {}]

\* FrameAllocator::add_frame(start, end): cuts [start, end) into aligned
\* power-of-two blocks. For start = 0 the lowest bit is 1 << (ORDER - 1), which
\* is above every block size here, so the size is prev_power_of_two alone.
RECURSIVE add_frame(_, _, _)
add_frame(fl, start, end) ==
    IF start >= end THEN fl
    ELSE LET size == IF start > 0
                     THEN Min(lowbit(start), prev_power_of_two(end - start))
                     ELSE prev_power_of_two(end - start)
             c    == trailing_zeros(size)
         IN add_frame([fl EXCEPT ![c] = @ \cup {start}], start + size, end)

\* The split loop of alloc_power_of_two: for j = i down to class + 1, the first
\* block of class j is cut into its two halves of class j - 1.
RECURSIVE SplitDown(_, _, _)
SplitDown(fl, j, class) ==
    IF j <= class THEN fl
    ELSE LET block == SetMin(fl[j])
             half  == Pow2(j - 1)
         IN SplitDown([fl EXCEPT ![j] = @ \ {block},
                                 ![j - 1] = @ \cup {block, block + half}],
                      j - 1, class)

\* FrameAllocator::alloc(count): a block of next_power_of_two(count) frames
\* from the first non-empty class >= the wanted one. The result is the
\* block's start, or None with the free lists as they were.
buddy_alloc(fl, count) ==
    LET size  == next_power_of_two(count)
        class == trailing_zeros(size)
        avail == {i \in class .. (ORDER - 1) : fl[i] # {}}
    IN IF avail = {} THEN [free_list |-> fl, result |-> None]
       ELSE LET split == SplitDown(fl, SetMin(avail), class)
                start == SetMin(split[class])
            IN [free_list |-> [split EXCEPT ![class] = @ \ {start}],
                result    |-> Some(start)]

\* current_ptr ^ (1 << current_class)
buddy_of(ptr, class) ==
    IF (ptr \div Pow2(class)) % 2 = 0 THEN ptr + Pow2(class) ELSE ptr - Pow2(class)

\* The merge loop of dealloc_power_of_two.
RECURSIVE MergeUp(_, _, _)
MergeUp(fl, ptr, class) ==
    IF class >= ORDER THEN fl
    ELSE LET buddy == buddy_of(ptr, class)
         IN IF buddy \in fl[class]
            THEN MergeUp([fl EXCEPT ![class] = @ \ {buddy}], Min(ptr, buddy), class + 1)
            ELSE [fl EXCEPT ![class] = @ \cup {ptr}]

\* FrameAllocator::dealloc(frame, count)
buddy_dealloc(fl, frame, count) ==
    MergeUp(fl, frame, trailing_zeros(next_power_of_two(count)))

\* The frame indexes the free lists hold.
FreeFrames(fl) ==
    UNION {UNION {b .. (b + Pow2(c) - 1) : b \in fl[c]} : c \in 0 .. (ORDER - 1)}

(***************************************************************************)
(* The frame allocator's interface (frame_allocator.rs).                   *)
(*                                                                         *)
(* Every function takes the allocator's Mutex for the whole of its body,   *)
(* so each is one atomic step; alloc_zero() zeroes the frame after alloc() *)
(* has returned and dropped the lock, so it is two steps.                  *)
(***************************************************************************)
\* spin::Once<Mutex<FrameAllocator>>: Once::new() is the empty cell.
OnceNew == [is_completed |-> FALSE, free_list |-> EmptyFreeList]
OnceOf(fl) == [is_completed |-> TRUE, free_list |-> fl]

NoPanic == ""
UnwrapNone == "unwrap on None"
AssertFailed == "assertion failed"

Returned(op, arg, some, frames) ==
    [op |-> op, arg |-> arg, some |-> some, frames |-> frames]

Usable == "Usable"
Reserved == "Reserved"
Region(typ, base, len) == [typ |-> typ, base |-> base, len |-> len]

\* The usable-memory lists init() is called with: one region, a reserved hole
\* at the start, a reserved hole in the middle, and a region whose base is not
\* page-aligned.
RegionLists ==
    { <<Region(Usable, 0, MaxFrames * PAGE_SIZE)>>,
      <<Region(Reserved, 0, PAGE_SIZE),
        Region(Usable, PAGE_SIZE, (MaxFrames - 1) * PAGE_SIZE)>>,
      <<Region(Usable, 0, PAGE_SIZE),
        Region(Reserved, PAGE_SIZE, PAGE_SIZE),
        Region(Usable, 2 * PAGE_SIZE, (MaxFrames - 2) * PAGE_SIZE)>>,
      <<Region(Usable, PAGE_SIZE + 1, PAGE_SIZE)>> }

RegionAligned(region) ==
    region.base % PAGE_SIZE = 0 /\ region.len % PAGE_SIZE = 0

\* The loop of init(): every usable region is added to the new allocator.
RECURSIVE AddRegions(_, _, _)
AddRegions(fl, regions, i) ==
    IF i > Len(regions) THEN fl
    ELSE LET region == regions[i]
             start  == region.base \div PAGE_SIZE
             end    == start + region.len \div PAGE_SIZE
         IN IF region.typ = Usable
            THEN AddRegions(add_frame(fl, start, end), regions, i + 1)
            ELSE AddRegions(fl, regions, i + 1)

\* init(regions): the assert_eq!s abort on a usable region that is not
\* page-aligned; Once::call_once runs its closure only while the cell is
\* empty and returns normally otherwise.
init(regions) ==
    /\ panicked = NoPanic
    /\ IF \E i \in 1 .. Len(regions) :
             regions[i].typ = Usable /\ ~RegionAligned(regions[i])
       THEN /\ panicked' = AssertFailed
            /\ UNCHANGED <<FRAME_ALLOCATOR, handles, zeroing, zeroed, ret>>
       ELSE /\ FRAME_ALLOCATOR' =
                  IF ~FRAME_ALLOCATOR.is_completed
                  THEN OnceOf(AddRegions(EmptyFreeList, regions, 1))
                  ELSE FRAME_ALLOCATOR
            /\ ret' = Returned("init", 0, FALSE, <<>>)
            /\ UNCHANGED <<handles, zeroing, zeroed, panicked>>

\* FRAME_ALLOCATOR.get().unwrap() on the empty cell.
\* panic!("found untracked memory mapped into VmSpace") and the unwrap() of
\* the Err of that text.
PanicUntracked == "found untracked memory mapped into VmSpace"
UnwrapUntracked == "called unwrap() on Err: found untracked memory mapped into VmSpace"

PanicUninitialized ==
    /\ panicked' = UnwrapNone
    /\ UNCHANGED <<FRAME_ALLOCATOR, handles, zeroing, zeroed, ret>>

\* A variant of alloc() that reports None on the empty cell instead of
\* unwrapping it (get().and_then(..) for get().unwrap()).
alloc_none_when_uninitialized ==
    /\ panicked = NoPanic
    /\ IF ~FRAME_ALLOCATOR.is_completed
       THEN /\ ret' = Returned("alloc", 1, FALSE, <<>>)
            /\ UNCHANGED <<FRAME_ALLOCATOR, handles, zeroing, zeroed, panicked>>
       ELSE LET r == buddy_alloc(FRAME_ALLOCATOR.free_list, 1)
            IN /\ FRAME_ALLOCATOR' = OnceOf(r.free_list)
               /\ IF r.result = None
                  THEN /\ ret' = Returned("alloc", 1, FALSE, <<>>)
                       /\ UNCHANGED handles
                  ELSE /\ ret' = Returned("alloc", 1, TRUE, <<Unwrap(r.result) * PAGE_SIZE>>)
                       /\ handles' = [handles EXCEPT ![Unwrap(r.result)] = @ + 1]
               /\ UNCHANGED <<zeroing, zeroed, panicked>>

\* alloc()
alloc ==
    /\ panicked = NoPanic
    /\ IF ~FRAME_ALLOCATOR.is_completed THEN PanicUninitialized
       ELSE LET r == buddy_alloc(FRAME_ALLOCATOR.free_list, 1)
            IN /\ FRAME_ALLOCATOR' = OnceOf(r.free_list)
               /\ IF r.result = None
                  THEN /\ ret' = Returned("alloc", 1, FALSE, <<>>)
                       /\ UNCHANGED handles
                  ELSE /\ ret' = Returned("alloc", 1, TRUE, <<Unwrap(r.result) * PAGE_SIZE>>)
                       /\ handles' = [handles EXCEPT ![Unwrap(r.result)] = @ + 1]
               /\ UNCHANGED <<zeroing, zeroed, panicked>>

\* A variant of alloc_continuous() whose loop stops one frame early
\* (0..frame_count - 1 for 0..frame_count).
alloc_continuous_one_short(frame_count) ==
    /\ panicked = NoPanic
    /\ IF ~FRAME_ALLOCATOR.is_completed THEN PanicUninitialized
       ELSE LET r == buddy_alloc(FRAME_ALLOCATOR.free_list, frame_count)
            IN /\ FRAME_ALLOCATOR' = OnceOf(r.free_list)
               /\ IF r.result = None
                  THEN /\ ret' = Returned("alloc_continuous", frame_count, FALSE, <<>>)
                       /\ UNCHANGED handles
                  ELSE LET start  == Unwrap(r.result)
                           vector == [i \in 1 .. (frame_count - 1) |->
                                          (start + (i - 1)) * PAGE_SIZE]
                       IN /\ ret' = Returned("alloc_continuous", frame_count, TRUE, vector)
                          /\ handles' = [f \in Frames |->
                                 IF f \in start .. (start + frame_count - 2)
                                 THEN handles[f] + 1 ELSE handles[f]]
               /\ UNCHANGED <<zeroing, zeroed, panicked>>

\* alloc_continuous(frame_count)
alloc_continuous(frame_count) ==
    /\ panicked = NoPanic
    /\ IF ~FRAME_ALLOCATOR.is_completed THEN PanicUninitialized
       ELSE LET r == buddy_alloc(FRAME_ALLOCATOR.free_list, frame_count)
            IN /\ FRAME_ALLOCATOR' = OnceOf(r.free_list)
               /\ IF r.result = None
                  THEN /\ ret' = Returned("alloc_continuous", frame_count, FALSE, <<>>)
                       /\ UNCHANGED handles
                  ELSE LET start  == Unwrap(r.result)
                           vector == [i \in 1 .. frame_count |->
                                          (start + (i - 1)) * PAGE_SIZE]
                       IN /\ ret' = Returned("alloc_continuous", frame_count, TRUE, vector)
                          /\ handles' = [f \in Frames |->
                                 IF f \in start .. (start + frame_count - 1)
                                 THEN handles[f] + 1 ELSE handles[f]]
               /\ UNCHANGED <<zeroing, zeroed, panicked>>

\* alloc_zero(), first half: let frame = alloc()?;
alloc_zero ==
    /\ panicked = NoPanic
    /\ IF ~FRAME_ALLOCATOR.is_completed THEN PanicUninitialized
       ELSE LET r == buddy_alloc(FRAME_ALLOCATOR.free_list, 1)
            IN /\ FRAME_ALLOCATOR' = OnceOf(r.free_list)
               /\ IF r.result = None
                  THEN /\ ret' = Returned("alloc_zero", 1, FALSE, <<>>)
                       /\ UNCHANGED <<handles, zeroing>>
                  ELSE /\ handles' = [handles EXCEPT ![Unwrap(r.result)] = @ + 1]
                       /\ zeroing' = zeroing \cup {Unwrap(r.result)}
                       /\ UNCHANGED ret
               /\ UNCHANGED <<zeroed, panicked>>

\* alloc_zero(), second half: frame.zero(); Some(frame)
alloc_zero_return(f) ==
    /\ panicked = NoPanic
    /\ f \in zeroing
    /\ zeroing' = zeroing \ {f}
    /\ zeroed' = zeroed \cup {f}
    /\ ret' = Returned("alloc_zero", 1, TRUE, <<f * PAGE_SIZE>>)
    /\ UNCHANGED <<FRAME_ALLOCATOR, handles, panicked>>

\* A variant of dealloc() that gives two frames back (dealloc(index, 2) for
\* dealloc(index, 1)).
dealloc_two_frames(index) ==
    /\ panicked = NoPanic
    /\ IF ~FRAME_ALLOCATOR.is_completed THEN PanicUninitialized
       ELSE /\ handles[index] > 0
            /\ index \notin zeroing
            /\ handles' = [handles EXCEPT ![index] = @ - 1]
            /\ FRAME_ALLOCATOR' =
                   OnceOf(buddy_dealloc(FRAME_ALLOCATOR.free_list, index, 2))
            /\ zeroed' = zeroed \ {index}
            /\ ret' = Returned("dealloc", index, FALSE, <<>>)
            /\ UNCHANGED <<zeroing, panicked>>

\* dealloc(index), called when the handle of frame `index` is dropped. The
\* caller guarantees that the index was allocated and is not freed twice, so
\* with an installed allocator the index is that of a live handle.
dealloc(index) ==
    /\ panicked = NoPanic
    /\ IF ~FRAME_ALLOCATOR.is_completed THEN PanicUninitialized
       ELSE /\ handles[index] > 0
            /\ index \notin zeroing
            /\ handles' = [handles EXCEPT ![index] = @ - 1]
            /\ FRAME_ALLOCATOR' =
                   OnceOf(buddy_dealloc(FRAME_ALLOCATOR.free_list, index, 1))
            /\ zeroed' = zeroed \ {index}
            /\ ret' = Returned("dealloc", index, FALSE, <<>>)
            /\ UNCHANGED <<zeroing, panicked>>

\* The holder of a zeroed frame writes to it.
WriteFrame(f) ==
    /\ panicked = NoPanic
    /\ handles[f] > 0
    /\ f \notin zeroing
    /\ f \in zeroed
    /\ zeroed' = zeroed \ {f}
    /\ UNCHANGED <<FRAME_ALLOCATOR, handles, zeroing, panicked, ret>>

InitAllocVars ==
    /\ FRAME_ALLOCATOR = OnceNew
    /\ handles = [f \in Frames |-> 0]
    /\ zeroing = {}
    /\ zeroed = {}
    /\ panicked = NoPanic
    /\ ret = Returned("boot", 0, FALSE, <<>>)

\* The frames the allocator can hand out: those of its free lists.
FreePool == FreeFrames(FRAME_ALLOCATOR.free_list)

(***************************************************************************)
(* VmSpace activation (vm_space.rs, VmSpace::new and VmSpace::activate).   *)
(*                                                                         *)
(* activate() runs with preemption disabled, so a CPU runs one call at a   *)
(* time; the CPUs run concurrently. A call blocks only where it takes a    *)
(* SpinLock, so it is cut into steps there: one step from the call to the  *)
(* point where it waits for the lock of the last activated VmSpace (or to  *)
(* its return, when it needs no second lock), one from there to the return.*)
(***************************************************************************)
VmSpaces == 1 .. MaxSpaces
CPUs == 0 .. (MaxCpus - 1)
\* The null pointer of LAST_ACTIVATED_VM_SPACE; in current_page_table, the
\* kernel page table.
NULL == 0
NoCpu == -1

\* The user address ceiling, scaled to the model's address range.
MAX_USERSPACE_VADDR == UserPages * PAGE_SIZE
\* The page-aligned user addresses a frame is ever mapped at: the slots of a
\* user page table that are not always empty.
Slots == {p * PAGE_SIZE : p \in 0 .. (MaxPages - 1)}
Threads == 1 .. MaxThreads
VmThreads == 1 .. MaxVmThreads
Handlers == 1 .. MaxHandlers
NoFrame == -1

\* PageTableItem::NotMapped and PageTableItem::Mapped { page, prop }.
NotMapped == [mapped |-> FALSE, frame |-> NoFrame, prop |-> {}]
Mapped(frame, prop) == [mapped |-> TRUE, frame |-> frame, prop |-> prop]
\* PageTableItem::MappedUntracked { pa, prop }: a mapping of memory that has
\* no Frame; the frame field holds Untracked.
Untracked == -2
MappedUntracked(prop) == [mapped |-> TRUE, frame |-> Untracked, prop |-> prop]
IsUntracked(m) == m.mapped /\ m.frame = Untracked
\* create_user_page_table(): no user mapping.
EmptyTable == [va \in Slots |-> NotMapped]

\* Drop of one Frame handle: the reference count goes down by one and the
\* frame goes back to the allocator with the last handle. `st` is the pair
\* of the handle counts and the allocator's free lists.
DropFrame(st, f) ==
    LET n == st.handles[f] - 1
    IN [handles   |-> [st.handles EXCEPT ![f] = n],
        free_list |-> IF n = 0 THEN buddy_dealloc(st.free_list, f, 1)
                      ELSE st.free_list]

\* Drop of the handles of a set of slots of one table, in address order.
RECURSIVE DropMapped(_, _, _)
DropMapped(st, table, slots) ==
    IF slots = {} THEN st
    ELSE LET va == SetMin(slots)
         IN DropMapped(IF table[va].mapped THEN DropFrame(st, table[va].frame) ELSE st,
                       table, slots \ {va})

FrameState == [handles |-> handles, free_list |-> FRAME_ALLOCATOR.free_list]

\* The Arc<VmSpace> counts become `count`; a VmSpace in `dropped` whose
\* count reached zero is freed: its page table is dropped and with it the
\* handle of every frame mapped in it.
RECURSIVE FreeTables(_, _, _)
FreeTables(st, count, dropped) ==
    IF dropped = {} THEN st
    ELSE LET v == SetMin(dropped)
         IN FreeTables(IF count[v] = 0 THEN DropMapped(st, pt[v], Slots) ELSE st,
                       count, dropped \ {v})

ArcCounts(count, dropped) ==
    LET st == FreeTables(FrameState, count, dropped)
    IN /\ strong' = count
       /\ pt' = [v \in VmSpaces |->
                    IF v \in dropped /\ count[v] = 0 THEN EmptyTable ELSE pt[v]]
       /\ page_fault_handler' = [v \in VmSpaces |->
                    IF v \in dropped /\ count[v] = 0 THEN NULL
                    ELSE page_fault_handler[v]]
       /\ handles' = st.handles
       /\ FRAME_ALLOCATOR' = [FRAME_ALLOCATOR EXCEPT !.free_list = st.free_list]

\* VmSpace::new() wrapped in an Arc by its process.
VmSpace_new(v) ==
    /\ panicked = NoPanic
    /\ strong[v] = 0
    /\ strong' = [strong EXCEPT ![v] = 1]
    /\ owned' = owned \cup {v}
    /\ pt' = [pt EXCEPT ![v] = EmptyTable]
    /\ page_fault_handler' = [page_fault_handler EXCEPT ![v] = NULL]
    /\ activated_cpus' = [activated_cpus EXCEPT ![v] = {}]
    /\ activated_cpus_lock' = [activated_cpus_lock EXCEPT ![v] = NoCpu]
    /\ UNCHANGED <<LAST_ACTIVATED_VM_SPACE, current_page_table, pc, self, last,
                   programmed, th, allocVars>>

\* Arc::drop: the strong count after one reference is released.
ArcDropped(count, v) == [count EXCEPT ![v] = @ - 1]

\* The process releases its Arc<VmSpace>. No activate() call and no cursor
\* borrows the VmSpace at that point.
VmSpace_drop(v) ==
    /\ panicked = NoPanic
    /\ v \in owned
    /\ \A c \in CPUs : pc[c] # "idle" => self[c] # v
    /\ \A t \in Threads : th[t].vm # v
    /\ owned' = owned \ {v}
    /\ ArcCounts(ArcDropped(strong, v), {v})
    /\ UNCHANGED <<activated_cpus, activated_cpus_lock, LAST_ACTIVATED_VM_SPACE,
                   current_page_table, pc, self, last, programmed, th,
                   zeroing, zeroed, panicked, ret>>

\* A variant of register_page_fault_handler() that stores every value.
register_page_fault_handler_last_wins(v, func) ==
    /\ panicked = NoPanic
    /\ v \in owned
    /\ page_fault_handler' = [page_fault_handler EXCEPT ![v] = func]
    /\ UNCHANGED <<strong, owned, pt, th, activated_cpus, activated_cpus_lock,
                   LAST_ACTIVATED_VM_SPACE, current_page_table, pc, self, last,
                   programmed, allocVars>>

\* register_page_fault_handler(func): Once::call_once keeps the first value.
register_page_fault_handler(v, func) ==
    /\ panicked = NoPanic
    /\ v \in owned
    /\ page_fault_handler' =
           [page_fault_handler EXCEPT ![v] = IF @ = NULL THEN func ELSE @]
    /\ UNCHANGED <<strong, owned, pt, th, activated_cpus, activated_cpus_lock,
                   LAST_ACTIVATED_VM_SPACE, current_page_table, pc, self, last,
                   programmed, allocVars>>

\* A variant of activate() without the contains() test: it adds the CPU and
\* programs the register on every call.
activate_lock_self_always_switches(cpu, v) ==
    /\ panicked = NoPanic
    /\ UNCHANGED <<th, pt, page_fault_handler, allocVars>>
    /\ pc[cpu] = "idle"
    /\ v \in owned
    /\ activated_cpus_lock[v] = NoCpu
    /\ self' = [self EXCEPT ![cpu] = v]
    /\ activated_cpus' = [activated_cpus EXCEPT ![v] = @ \cup {cpu}]
    /\ current_page_table' = [current_page_table EXCEPT ![cpu] = v]
    /\ programmed' = [programmed EXCEPT ![cpu] = TRUE]
    /\ last' = [last EXCEPT ![cpu] = LAST_ACTIVATED_VM_SPACE[cpu]]
    /\ IF LAST_ACTIVATED_VM_SPACE[cpu] = NULL
       THEN /\ LAST_ACTIVATED_VM_SPACE' = [LAST_ACTIVATED_VM_SPACE EXCEPT ![cpu] = v]
            /\ strong' = [strong EXCEPT ![v] = @ + 1]
            /\ UNCHANGED <<activated_cpus_lock, pc>>
       ELSE /\ activated_cpus_lock' = [activated_cpus_lock EXCEPT ![v] = cpu]
            /\ pc' = [pc EXCEPT ![cpu] = "lock_last"]
            /\ UNCHANGED <<LAST_ACTIVATED_VM_SPACE, strong>>
    /\ UNCHANGED owned

\* A variant of activate() that does not call self.pt.activate().
activate_lock_self_no_pt_activate(cpu, v) ==
    /\ panicked = NoPanic
    /\ UNCHANGED <<th, pt, page_fault_handler, allocVars>>
    /\ pc[cpu] = "idle"
    /\ v \in owned
    /\ activated_cpus_lock[v] = NoCpu
    /\ self' = [self EXCEPT ![cpu] = v]
    /\ IF cpu \in activated_cpus[v]
       THEN /\ programmed' = [programmed EXCEPT ![cpu] = FALSE]
            /\ last' = [last EXCEPT ![cpu] = NULL]
            /\ UNCHANGED <<strong, owned, activated_cpus, activated_cpus_lock,
                           LAST_ACTIVATED_VM_SPACE, current_page_table, pc>>
       ELSE /\ activated_cpus' = [activated_cpus EXCEPT ![v] = @ \cup {cpu}]
            /\ programmed' = [programmed EXCEPT ![cpu] = FALSE]
            /\ last' = [last EXCEPT ![cpu] = LAST_ACTIVATED_VM_SPACE[cpu]]
            /\ IF LAST_ACTIVATED_VM_SPACE[cpu] = NULL
               THEN /\ LAST_ACTIVATED_VM_SPACE' =
                          [LAST_ACTIVATED_VM_SPACE EXCEPT ![cpu] = v]
                    /\ strong' = [strong EXCEPT ![v] = @ + 1]
                    /\ UNCHANGED <<activated_cpus_lock, pc>>
               ELSE /\ activated_cpus_lock' = [activated_cpus_lock EXCEPT ![v] = cpu]
                    /\ pc' = [pc EXCEPT ![cpu] = "lock_last"]
                    /\ UNCHANGED <<LAST_ACTIVATED_VM_SPACE, strong>>
            /\ UNCHANGED <<owned, current_page_table>>

\* activate(), lines 118-141 up to last.activated_cpus.lock(): takes the
\* lock of self; when the CPU is not in the set, adds it, programs the root
\* register and loads last_ptr. With a null last_ptr the call stores the new
\* record and returns in this step; otherwise it keeps the lock of self and
\* goes on to take the lock of the last activated VmSpace.
activate_lock_self(cpu, v) ==
    /\ panicked = NoPanic
    /\ UNCHANGED <<th, pt, page_fault_handler, allocVars>>
    /\ pc[cpu] = "idle"
    /\ v \in owned
    /\ activated_cpus_lock[v] = NoCpu
    /\ self' = [self EXCEPT ![cpu] = v]
    /\ IF cpu \in activated_cpus[v]
       THEN /\ programmed' = [programmed EXCEPT ![cpu] = FALSE]
            /\ last' = [last EXCEPT ![cpu] = NULL]
            /\ UNCHANGED <<strong, owned, activated_cpus, activated_cpus_lock,
                           LAST_ACTIVATED_VM_SPACE, current_page_table, pc>>
       ELSE /\ activated_cpus' = [activated_cpus EXCEPT ![v] = @ \cup {cpu}]
            /\ current_page_table' = [current_page_table EXCEPT ![cpu] = v]
            /\ programmed' = [programmed EXCEPT ![cpu] = TRUE]
            /\ last' = [last EXCEPT ![cpu] = LAST_ACTIVATED_VM_SPACE[cpu]]
            /\ IF LAST_ACTIVATED_VM_SPACE[cpu] = NULL
               THEN /\ LAST_ACTIVATED_VM_SPACE' =
                          [LAST_ACTIVATED_VM_SPACE EXCEPT ![cpu] = v]
                    /\ strong' = [strong EXCEPT ![v] = @ + 1]
                    /\ UNCHANGED <<activated_cpus_lock, pc>>
               ELSE /\ activated_cpus_lock' = [activated_cpus_lock EXCEPT ![v] = cpu]
                    /\ pc' = [pc EXCEPT ![cpu] = "lock_last"]
                    /\ UNCHANGED <<LAST_ACTIVATED_VM_SPACE, strong>>
            /\ UNCHANGED owned

\* A variant of activate() that does not remove the CPU from the set of the
\* last activated VmSpace.
activate_lock_last_no_remove(cpu) ==
    /\ panicked = NoPanic
    /\ UNCHANGED <<th, zeroing, zeroed, panicked, ret>>
    /\ pc[cpu] = "lock_last"
    /\ activated_cpus_lock[last[cpu]] = NoCpu
    /\ ArcCounts([ArcDropped(strong, last[cpu]) EXCEPT ![self[cpu]] = @ + 1],
                 {last[cpu]})
    /\ LAST_ACTIVATED_VM_SPACE' = [LAST_ACTIVATED_VM_SPACE EXCEPT ![cpu] = self[cpu]]
    /\ activated_cpus_lock' = [activated_cpus_lock EXCEPT ![self[cpu]] = NoCpu]
    /\ pc' = [pc EXCEPT ![cpu] = "idle"]
    /\ UNCHANGED <<owned, activated_cpus, current_page_table, self, last, programmed>>

\* A variant of activate() that does not release the Arc it takes back from
\* the record.
activate_lock_last_no_release(cpu) ==
    /\ panicked = NoPanic
    /\ UNCHANGED <<th, zeroing, zeroed, panicked, ret>>
    /\ pc[cpu] = "lock_last"
    /\ activated_cpus_lock[last[cpu]] = NoCpu
    /\ activated_cpus' = [activated_cpus EXCEPT ![last[cpu]] = @ \ {cpu}]
    /\ ArcCounts([strong EXCEPT ![self[cpu]] = @ + 1], {})
    /\ LAST_ACTIVATED_VM_SPACE' = [LAST_ACTIVATED_VM_SPACE EXCEPT ![cpu] = self[cpu]]
    /\ activated_cpus_lock' = [activated_cpus_lock EXCEPT ![self[cpu]] = NoCpu]
    /\ pc' = [pc EXCEPT ![cpu] = "idle"]
    /\ UNCHANGED <<owned, current_page_table, self, last, programmed>>

\* activate(), lines 135-141: with the lock of the last activated VmSpace,
\* removes the CPU from its set, unlocks it, drops the Arc taken back from
\* the record, stores a clone of self as the new record and returns,
\* unlocking self.
activate_lock_last(cpu) ==
    /\ panicked = NoPanic
    /\ UNCHANGED <<th, zeroing, zeroed, panicked, ret>>
    /\ pc[cpu] = "lock_last"
    /\ activated_cpus_lock[last[cpu]] = NoCpu
    /\ activated_cpus' = [activated_cpus EXCEPT ![last[cpu]] = @ \ {cpu}]
    /\ ArcCounts([ArcDropped(strong, last[cpu]) EXCEPT ![self[cpu]] = @ + 1],
                 {last[cpu]})
    /\ LAST_ACTIVATED_VM_SPACE' = [LAST_ACTIVATED_VM_SPACE EXCEPT ![cpu] = self[cpu]]
    /\ activated_cpus_lock' = [activated_cpus_lock EXCEPT ![self[cpu]] = NoCpu]
    /\ pc' = [pc EXCEPT ![cpu] = "idle"]
    /\ UNCHANGED <<owned, current_page_table, self, last, programmed>>

InitActivateVars ==
    /\ strong = [v \in VmSpaces |-> 0]
    /\ owned = {}
    /\ activated_cpus = [v \in VmSpaces |-> {}]
    /\ activated_cpus_lock = [v \in VmSpaces |-> NoCpu]
    /\ LAST_ACTIVATED_VM_SPACE = [c \in CPUs |-> NULL]
    /\ current_page_table = [c \in CPUs |-> NULL]
    /\ pc = [c \in CPUs |-> "idle"]
    /\ self = [c \in CPUs |-> NULL]
    /\ last = [c \in CPUs |-> NULL]
    /\ programmed = [c \in CPUs |-> FALSE]

\* A thread that holds no cursor and no frame handle.
ThreadIdle == [pc |-> "idle", vm |-> NULL, mutable |-> FALSE, start |-> 0,
               end |-> 0, va |-> 0, waited |-> FALSE, frame |-> NoFrame,
               res |-> "", child |-> NULL, taken |-> {}, accessor |-> None,
               log |-> <<>>]

InitVmVars ==
    /\ pt = [v \in VmSpaces |-> EmptyTable]
    /\ page_fault_handler = [v \in VmSpaces |-> NULL]
    /\ th = [t \in Threads |-> ThreadIdle]
    /\ trace = <<>>

(***************************************************************************)
(* Cursors, mappings and copy-on-write fork (vm_space.rs).                 *)
(*                                                                         *)
(* A thread holds at most one cursor and at most one Frame handle. The     *)
(* page table the cursors work on is a primitive outside this code: it is  *)
(* a map from the page-aligned user addresses to mappings, and creating a  *)
(* cursor over a range waits until no live cursor of the same table        *)
(* overlaps the range. A call that waits is cut into two steps there.      *)
(***************************************************************************)
\* The properties callers pass to map().
Props == {{"R"}, {"R", "W"}}
\* The range bounds callers pass to cursor() and cursor_mut(): the page
\* boundaries of the pages frames are mapped on, an unaligned one and one
\* above the user ceiling.
PageBounds == {p * PAGE_SIZE : p \in 0 .. MaxPages}
CursorBounds == PageBounds \cup {1, MAX_USERSPACE_VADDR + PAGE_SIZE}
\* The lengths callers pass to unmap().
Lens == {p * PAGE_SIZE : p \in 0 .. MaxPages} \cup {1}

\* The range check of the page table's cursor constructor.
RangeOk(start, end) ==
    /\ start % PAGE_SIZE = 0
    /\ end % PAGE_SIZE = 0
    /\ start < end
    /\ end <= MAX_USERSPACE_VADDR

Overlap(s1, e1, s2, e2) == s1 < e2 /\ s2 < e1

\* The threads other than t that hold a live cursor of v overlapping
\* [start, end).
Conflicts(t, v, start, end) ==
    {u \in Threads \ {t} :
        /\ th[u].pc = "live"
        /\ th[u].vm = v
        /\ Overlap(th[u].start, th[u].end, start, end)}

\* The cursor a thread holds once cursor() / cursor_mut() has returned Ok.
Acquired(rec, v, mutable, start, end, waited) ==
    [rec EXCEPT !.pc = "live", !.vm = v, !.mutable = mutable, !.start = start,
                !.end = end, !.va = start, !.waited = waited, !.res = "Ok",
                !.taken = {}, !.log = <<>>]

\* A variant of cursor() / cursor_mut() that does not wait for the live
\* cursors of overlapping ranges.
cursor_call_no_wait(t, v, mutable, start, end) ==
    /\ panicked = NoPanic
    /\ th[t].pc = "idle"
    /\ v \in owned
    /\ th' = [th EXCEPT ![t] =
                 IF ~RangeOk(start, end)
                 THEN [@ EXCEPT !.res = "Err", !.taken = {}, !.log = <<>>]
                 ELSE Acquired(@, v, mutable, start, end, FALSE)]
    /\ UNCHANGED <<pt, page_fault_handler, activateVars, allocVars>>

\* cursor(va) / cursor_mut(va): Err for a malformed range; otherwise the
\* cursor is returned at once when no live cursor overlaps the range, and
\* the caller waits when one does.
cursor_call(t, v, mutable, start, end) ==
    /\ panicked = NoPanic
    /\ th[t].pc = "idle"
    /\ v \in owned
    /\ th' = [th EXCEPT ![t] =
                 IF ~RangeOk(start, end)
                 THEN [@ EXCEPT !.res = "Err", !.taken = {}, !.log = <<>>]
                 ELSE IF Conflicts(t, v, start, end) = {}
                 THEN Acquired(@, v, mutable, start, end, FALSE)
                 ELSE [@ EXCEPT !.pc = "blocked", !.vm = v, !.mutable = mutable,
                                !.start = start, !.end = end, !.waited = TRUE,
                                !.res = "", !.taken = {}, !.log = <<>>]]
    /\ UNCHANGED <<pt, page_fault_handler, activateVars, allocVars>>

\* The waiting cursor() / cursor_mut() call returns once no live cursor
\* overlaps its range any more.
cursor_acquire(t) ==
    /\ panicked = NoPanic
    /\ th[t].pc = "blocked"
    /\ Conflicts(t, th[t].vm, th[t].start, th[t].end) = {}
    /\ th' = [th EXCEPT ![t] = Acquired(@, @.vm, @.mutable, @.start, @.end, TRUE)]
    /\ UNCHANGED <<pt, page_fault_handler, activateVars, allocVars>>

\* Drop of a Cursor / CursorMut: the range is released.
cursor_drop(t) ==
    /\ panicked = NoPanic
    /\ th[t].pc = "live"
    /\ th' = [th EXCEPT ![t] = [ThreadIdle EXCEPT !.frame = th[t].frame]]
    /\ UNCHANGED <<pt, page_fault_handler, activateVars, allocVars>>

\* The handle counts and free lists become those of `st`.
SetFrameState(st) ==
    /\ handles' = st.handles
    /\ FRAME_ALLOCATOR' = [FRAME_ALLOCATOR EXCEPT !.free_list = st.free_list]
    /\ UNCHANGED <<zeroing, zeroed, panicked, ret>>

\* A thread allocates a frame with alloc() and keeps the handle.
frame_alloc(t) ==
    /\ th[t].frame = NoFrame
    /\ alloc
    /\ th' = [th EXCEPT ![t].frame =
                 IF ret'.some THEN ret'.frames[1] \div PAGE_SIZE ELSE NoFrame]
    /\ UNCHANGED <<pt, page_fault_handler, activateVars>>

\* A thread drops the Frame handle it holds.
frame_drop(t) ==
    /\ panicked = NoPanic
    /\ th[t].frame # NoFrame
    /\ SetFrameState(DropFrame(FrameState, th[t].frame))
    /\ th' = [th EXCEPT ![t].frame = NoFrame]
    /\ UNCHANGED <<pt, page_fault_handler, activateVars>>

\* The VmItem query() reports for address va of VmSpace v: the conversion of
\* the page table's item, NotMapped { va, len } or Mapped { va, frame, prop }
\* (the len of a NotMapped item is the page table's and is left out).
query_item(v, va) ==
    IF va \in Slots /\ pt[v][va].mapped
    THEN [mapped |-> TRUE, va |-> va, frame |-> pt[v][va].frame,
          prop |-> pt[v][va].prop]
    ELSE [mapped |-> FALSE, va |-> va, frame |-> NoFrame, prop |-> {}]

\* The effects of a call on the TLB of the current CPU and on frame handles,
\* in program order: the log a thread keeps of its last call.
tlb_flush_addr(va) == <<"tlb_flush_addr", va, va + PAGE_SIZE>>
tlb_flush_addr_range(start, end) == <<"tlb_flush_addr_range", start, end>>
tlb_flush_all_excluding_global == <<"tlb_flush_all_excluding_global", 0, 0>>
drop_page(va, frame) == <<"drop", va, frame>>
pt_map(va, frame) == <<"map", va, frame>>

\* const TLB_FLUSH_THRESHOLD: usize = 32 * PAGE_SIZE
TLB_FLUSH_THRESHOLD == 32 * PAGE_SIZE

\* The effects of a take_next loop over `slots` in address order: for every
\* mapping found, the flush of its address when flush_each holds, then the
\* drop of its page.
RECURSIVE TakeLog(_, _, _)
TakeLog(table, slots, flush_each) ==
    IF slots = {} THEN <<>>
    ELSE LET va == SetMin(slots)
         IN (IF table[va].mapped
             THEN (IF flush_each THEN <<tlb_flush_addr(va)>> ELSE <<>>)
                      \o <<drop_page(va, table[va].frame)>>
             ELSE <<>>)
            \o TakeLog(table, slots \ {va}, flush_each)

\* The effects of a protect_next loop over `slots` in address order: for
\* every mapping found, the flush of its address when flush_each holds.
RECURSIVE ProtectLog(_, _, _)
ProtectLog(table, slots, flush_each) ==
    IF slots = {} THEN <<>>
    ELSE LET va == SetMin(slots)
         IN (IF table[va].mapped /\ flush_each THEN <<tlb_flush_addr(va)>>
             ELSE <<>>)
            \o ProtectLog(table, slots \ {va}, flush_each)

\* Whether the slot of address va of VmSpace v holds an untracked mapping.
UntrackedAt(v, va) == va \in Slots /\ IsUntracked(pt[v][va])

\* A variant of query() that returns an error for an untracked mapping.
query_untracked_is_err(t) ==
    /\ panicked = NoPanic
    /\ th[t].pc = "live"
    /\ th[t].frame = NoFrame
    /\ th[t].va < th[t].end
    /\ IF UntrackedAt(th[t].vm, th[t].va)
       THEN /\ th' = [th EXCEPT ![t].res = "Err"]
            /\ UNCHANGED <<handles, panicked>>
       ELSE LET item == query_item(th[t].vm, th[t].va)
            IN /\ th' = [th EXCEPT ![t].frame = item.frame]
               /\ handles' = IF item.mapped
                             THEN [handles EXCEPT ![item.frame] = @ + 1]
                             ELSE handles
               /\ UNCHANGED panicked
    /\ UNCHANGED <<FRAME_ALLOCATOR, zeroing, zeroed, ret,
                   pt, page_fault_handler, activateVars>>

\* Cursor::query / CursorMut::query on a slot of the range: reports the
\* current slot and does not move the cursor. The Frame of a Mapped item is
\* a new handle to the mapped frame, which the calling thread keeps. The
\* conversion of an untracked mapping is an Err, which query() unwraps.
query(t) ==
    /\ panicked = NoPanic
    /\ th[t].pc = "live"
    /\ th[t].frame = NoFrame
    /\ th[t].va < th[t].end
    /\ IF UntrackedAt(th[t].vm, th[t].va)
       THEN /\ panicked' = UnwrapUntracked
            /\ UNCHANGED <<handles, th>>
       ELSE LET item == query_item(th[t].vm, th[t].va)
            IN /\ th' = [th EXCEPT ![t].frame = item.frame]
               /\ handles' = IF item.mapped
                             THEN [handles EXCEPT ![item.frame] = @ + 1]
                             ELSE handles
               /\ UNCHANGED panicked
    /\ UNCHANGED <<FRAME_ALLOCATOR, zeroing, zeroed, ret,
                   pt, page_fault_handler, activateVars>>

\* What Iterator::next returns at the cursor's position: None when query()
\* is an Err, which it is at the end of the range, and the item otherwise.
next_result(t) ==
    IF th[t].va >= th[t].end THEN None
    ELSE Some(query_item(th[t].vm, th[t].va))

\* A variant of next() that leaves the cursor where it is.
next_no_move(t) ==
    /\ panicked = NoPanic
    /\ th[t].pc = "live"
    /\ ~th[t].mutable
    /\ th[t].frame = NoFrame
    /\ IF th[t].va < th[t].end /\ UntrackedAt(th[t].vm, th[t].va)
       THEN /\ panicked' = UnwrapUntracked
            /\ UNCHANGED <<handles, th>>
       ELSE LET result == next_result(t)
            IN /\ th' = [th EXCEPT ![t].frame = IF result = None THEN NoFrame
                                                ELSE Unwrap(result).frame,
                                   ![t].res = IF result = None THEN "None"
                                              ELSE "Some"]
               /\ handles' = IF result # None /\ Unwrap(result).mapped
                             THEN [handles EXCEPT ![Unwrap(result).frame] = @ + 1]
                             ELSE handles
               /\ UNCHANGED panicked
    /\ UNCHANGED <<FRAME_ALLOCATOR, zeroing, zeroed, ret,
                   pt, page_fault_handler, activateVars>>

\* Iterator::next of Cursor: query(), then move_forward() when query() was
\* Ok; the item is returned, None when query() was an Err. The caller keeps
\* the Frame of a Mapped item.
next(t) ==
    /\ panicked = NoPanic
    /\ th[t].pc = "live"
    /\ ~th[t].mutable
    /\ th[t].frame = NoFrame
    /\ IF th[t].va < th[t].end /\ UntrackedAt(th[t].vm, th[t].va)
       THEN /\ panicked' = UnwrapUntracked
            /\ UNCHANGED <<handles, th>>
       ELSE LET result == next_result(t)
            IN /\ th' = [th EXCEPT ![t].frame = IF result = None THEN NoFrame
                                                ELSE Unwrap(result).frame,
                                   ![t].va = IF result = None THEN @
                                             ELSE @ + PAGE_SIZE,
                                   ![t].res = IF result = None THEN "None"
                                              ELSE "Some"]
               /\ handles' = IF result # None /\ Unwrap(result).mapped
                             THEN [handles EXCEPT ![Unwrap(result).frame] = @ + 1]
                             ELSE handles
               /\ UNCHANGED panicked
    /\ UNCHANGED <<FRAME_ALLOCATOR, zeroing, zeroed, ret,
                   pt, page_fault_handler, activateVars>>

\* A variant of map() that flushes the range before it installs the mapping.
map_flush_first(t, prop) ==
    /\ panicked = NoPanic
    /\ th[t].pc = "live"
    /\ th[t].mutable
    /\ th[t].frame # NoFrame
    /\ th[t].va < th[t].end
    /\ th[t].va \in Slots
    /\ LET v   == th[t].vm
           va  == th[t].va
           old == pt[v][va]
       IN /\ pt' = [pt EXCEPT ![v][va] =
                       Mapped(th[t].frame, prop \cup {"ACCESSED"})]
          /\ SetFrameState(IF old.mapped /\ ~IsUntracked(old) THEN DropFrame(FrameState, old.frame)
                           ELSE FrameState)
          /\ th' = [th EXCEPT ![t].frame = NoFrame, ![t].va = va + PAGE_SIZE,
                              ![t].res = "mapped", ![t].taken = {},
                              ![t].log =
                                  <<tlb_flush_addr_range(va, va + PAGE_SIZE),
                                    pt_map(va, th[t].frame)>>
                                  \o (IF old.mapped /\ ~IsUntracked(old)
                                      THEN <<drop_page(va, old.frame)>>
                                      ELSE <<>>)]
    /\ UNCHANGED <<page_fault_handler, activateVars>>

\* A variant of map() that leaves the property as the caller passed it.
map_prop_as_passed(t, prop) ==
    /\ panicked = NoPanic
    /\ th[t].pc = "live"
    /\ th[t].mutable
    /\ th[t].frame # NoFrame
    /\ th[t].va < th[t].end
    /\ th[t].va \in Slots
    /\ LET v   == th[t].vm
           va  == th[t].va
           old == pt[v][va]
       IN /\ pt' = [pt EXCEPT ![v][va] = Mapped(th[t].frame, prop)]
          /\ SetFrameState(IF old.mapped THEN DropFrame(FrameState, old.frame)
                           ELSE FrameState)
          /\ th' = [th EXCEPT ![t].frame = NoFrame, ![t].va = va + PAGE_SIZE,
                              ![t].res = "mapped", ![t].taken = {},
                              ![t].log =
                                  (IF old.mapped THEN <<drop_page(va, old.frame)>>
                                   ELSE <<>>)
                                  \o <<tlb_flush_addr_range(va, va + PAGE_SIZE)>>]
    /\ UNCHANGED <<page_fault_handler, activateVars>>

\* CursorMut::map(frame, prop): ACCESSED is added to the property, the frame
\* the thread holds is moved into the current slot, the handle of a frame
\* mapped there before is dropped, the cursor moves one frame forward, and
\* the addresses of the frame are flushed from the TLB.
map(t, prop) ==
    /\ panicked = NoPanic
    /\ th[t].pc = "live"
    /\ th[t].mutable
    /\ th[t].frame # NoFrame
    /\ th[t].va < th[t].end
    /\ th[t].va \in Slots
    /\ LET v   == th[t].vm
           va  == th[t].va
           old == pt[v][va]
       IN /\ pt' = [pt EXCEPT ![v][va] =
                       Mapped(th[t].frame, prop \cup {"ACCESSED"})]
          /\ SetFrameState(IF old.mapped /\ ~IsUntracked(old) THEN DropFrame(FrameState, old.frame)
                           ELSE FrameState)
          /\ th' = [th EXCEPT ![t].frame = NoFrame, ![t].va = va + PAGE_SIZE,
                              ![t].res = "mapped", ![t].taken = {},
                              ![t].log =
                                  <<pt_map(va, th[t].frame)>>
                                  \o (IF old.mapped /\ ~IsUntracked(old)
                                      THEN <<drop_page(va, old.frame)>>
                                      ELSE <<>>)
                                  \o <<tlb_flush_addr_range(va, va + PAGE_SIZE)>>]
    /\ UNCHANGED <<page_fault_handler, activateVars>>

\* The frames of the mappings of the table in `slots`: the pages the
\* take_next loop finds.
Taken(table, slots) == {table[va].frame : va \in {x \in slots : table[x].mapped}}

\* The table without its mappings in `slots`.
Unmapped(table, slots) ==
    [va \in Slots |-> IF va \in slots THEN NotMapped ELSE table[va]]

\* A variant of unmap() that takes the mappings of the table from the
\* cursor's position on, whatever the range of the cursor.
unmap_beyond_range(t, len) ==
    /\ panicked = NoPanic
    /\ th[t].pc = "live"
    /\ th[t].mutable
    /\ len % PAGE_SIZE = 0
    /\ LET v     == th[t].vm
           slots == {va \in Slots : th[t].va <= va}
       IN /\ th[t].va + len <= th[t].end
          /\ pt' = [pt EXCEPT ![v] = Unmapped(@, slots)]
          /\ SetFrameState(DropMapped(FrameState, pt[v], slots))
          /\ th' = [th EXCEPT ![t].va = @ + len, ![t].res = "unmapped",
                              ![t].taken = Taken(pt[v], slots),
                              ![t].log = TakeLog(pt[v], slots, TRUE)]
    /\ UNCHANGED <<page_fault_handler, activateVars>>

\* A variant of unmap() that takes only the mapping of the slot the cursor
\* is at.
unmap_first_slot(t, len) ==
    /\ panicked = NoPanic
    /\ th[t].pc = "live"
    /\ th[t].mutable
    /\ IF len % PAGE_SIZE # 0
       THEN /\ panicked' = AssertFailed
            /\ UNCHANGED <<FRAME_ALLOCATOR, handles, zeroing, zeroed, ret, pt, th>>
       ELSE LET v     == th[t].vm
                slots == {va \in Slots : th[t].va = va /\ va < th[t].va + len}
            IN /\ th[t].va + len <= th[t].end
               /\ pt' = [pt EXCEPT ![v] = Unmapped(@, slots)]
               /\ SetFrameState(DropMapped(FrameState, pt[v], slots))
               /\ th' = [th EXCEPT ![t].va = @ + len, ![t].res = "unmapped",
                                   ![t].taken = Taken(pt[v], slots),
                                   ![t].log =
                                       IF len >= TLB_FLUSH_THRESHOLD
                                       THEN TakeLog(pt[v], slots, FALSE)
                                            \o <<tlb_flush_all_excluding_global>>
                                       ELSE TakeLog(pt[v], slots, TRUE)]
    /\ UNCHANGED <<page_fault_handler, activateVars>>

\* A variant of unmap() that keeps the handles of the pages it takes.
unmap_no_drop(t, len) ==
    /\ panicked = NoPanic
    /\ th[t].pc = "live"
    /\ th[t].mutable
    /\ IF len % PAGE_SIZE # 0
       THEN /\ panicked' = AssertFailed
            /\ UNCHANGED <<FRAME_ALLOCATOR, handles, zeroing, zeroed, ret, pt, th>>
       ELSE LET v     == th[t].vm
                slots == {va \in Slots : th[t].va <= va /\ va < th[t].va + len}
            IN /\ th[t].va + len <= th[t].end
               /\ pt' = [pt EXCEPT ![v] = Unmapped(@, slots)]
               /\ SetFrameState(FrameState)
               /\ th' = [th EXCEPT ![t].va = @ + len, ![t].res = "unmapped",
                                   ![t].taken = {},
                                   ![t].log =
                                       IF len >= TLB_FLUSH_THRESHOLD
                                       THEN <<tlb_flush_all_excluding_global>>
                                       ELSE ProtectLog(pt[v], slots, TRUE)]
    /\ UNCHANGED <<page_fault_handler, activateVars>>

\* The take_next loop of unmap() and clear() over slots that hold an
\* untracked mapping: the mappings below the first untracked one are taken
\* and their pages dropped, take_next takes the untracked mapping out of the
\* table, and the loop panics; no flush follows the loop.
TakeUntilUntracked(t, v, slots, flush_each) ==
    LET stop  == SetMin({va \in slots : IsUntracked(pt[v][va])})
        below == {va \in slots : va < stop}
        st    == DropMapped(FrameState, pt[v], below)
    IN /\ pt' = [pt EXCEPT ![v] = Unmapped(@, below \cup {stop})]
       /\ handles' = st.handles
       /\ FRAME_ALLOCATOR' = [FRAME_ALLOCATOR EXCEPT !.free_list = st.free_list]
       /\ panicked' = PanicUntracked
       /\ th' = [th EXCEPT ![t].va = stop + PAGE_SIZE,
                           ![t].taken = Taken(pt[v], below),
                           ![t].log = TakeLog(pt[v], below, flush_each)]
       /\ UNCHANGED <<zeroing, zeroed, ret>>

\* CursorMut::unmap(len): aborts when len is not page-aligned; otherwise
\* takes every mapping in [va, va + len) out of the table, drops its frame
\* handle and leaves the cursor at va + len. Below TLB_FLUSH_THRESHOLD the
\* address of every mapping taken is flushed before its page is dropped;
\* from the threshold on, the whole TLB is flushed after the loop.
unmap(t, len) ==
    /\ panicked = NoPanic
    /\ th[t].pc = "live"
    /\ th[t].mutable
    /\ IF len % PAGE_SIZE # 0
       THEN /\ panicked' = AssertFailed
            /\ UNCHANGED <<FRAME_ALLOCATOR, handles, zeroing, zeroed, ret, pt, th>>
       ELSE LET v     == th[t].vm
                slots == {va \in Slots : th[t].va <= va /\ va < th[t].va + len}
            IN /\ th[t].va + len <= th[t].end
               /\ IF \E va \in slots : IsUntracked(pt[v][va])
                  THEN TakeUntilUntracked(t, v, slots, len < TLB_FLUSH_THRESHOLD)
                  ELSE /\ pt' = [pt EXCEPT ![v] = Unmapped(@, slots)]
                       /\ SetFrameState(DropMapped(FrameState, pt[v], slots))
                       /\ th' = [th EXCEPT
                                    ![t].va = @ + len, ![t].res = "unmapped",
                                    ![t].taken = Taken(pt[v], slots),
                                    ![t].log =
                                        IF len >= TLB_FLUSH_THRESHOLD
                                        THEN TakeLog(pt[v], slots, FALSE)
                                             \o <<tlb_flush_all_excluding_global>>
                                        ELSE TakeLog(pt[v], slots, TRUE)]
    /\ UNCHANGED <<page_fault_handler, activateVars>>

\* A variant of clear() that flushes the address of every mapping it takes
\* instead of the whole TLB.
clear_flush_each(t, v) ==
    /\ panicked = NoPanic
    /\ th[t].pc = "idle"
    /\ v \in owned
    /\ Conflicts(t, v, 0, MAX_USERSPACE_VADDR) = {}
    /\ pt' = [pt EXCEPT ![v] = Unmapped(@, Slots)]
    /\ SetFrameState(DropMapped(FrameState, pt[v], Slots))
    /\ th' = [th EXCEPT ![t].res = "cleared", ![t].taken = Taken(pt[v], Slots),
                        ![t].log = TakeLog(pt[v], Slots, TRUE)]
    /\ UNCHANGED <<page_fault_handler, activateVars>>

\* The closures callers pass to protect(), and what they do to a property.
ProtectOps == {"remove_W", "insert_W", "toggle_W"}
ApplyOp(op, prop) ==
    IF op = "remove_W" THEN prop \ {"W"}
    ELSE IF op = "insert_W" THEN prop \cup {"W"}
    ELSE IF "W" \in prop THEN prop \ {"W"} ELSE prop \cup {"W"}

\* The table after the protect_next loop over `slots`: op is applied to the
\* property of every mapping found.
Protected(table, slots, op) ==
    [va \in Slots |-> IF va \in slots /\ table[va].mapped
                      THEN Mapped(table[va].frame, ApplyOp(op, table[va].prop))
                      ELSE table[va]]

\* A variant of protect() that applies op a second time to the mappings it
\* finds.
protect_twice(t, len, op) ==
    /\ panicked = NoPanic
    /\ th[t].pc = "live"
    /\ th[t].mutable
    /\ len % PAGE_SIZE = 0
    /\ LET v     == th[t].vm
           slots == {va \in Slots : th[t].va <= va /\ va < th[t].va + len}
       IN /\ th[t].va + len <= th[t].end
          /\ pt' = [pt EXCEPT ![v] = Protected(Protected(@, slots, op), slots, op)]
          /\ th' = [th EXCEPT ![t].va = @ + len, ![t].res = "protected",
                              ![t].taken = {},
                              ![t].log =
                                  IF len >= TLB_FLUSH_THRESHOLD
                                  THEN <<tlb_flush_all_excluding_global>>
                                  ELSE ProtectLog(pt[v], slots, TRUE)]
          /\ UNCHANGED allocVars
    /\ UNCHANGED <<page_fault_handler, activateVars>>

\* A variant of protect() that flushes the whole TLB only above the
\* threshold.
protect_above_threshold(t, len, op) ==
    /\ panicked = NoPanic
    /\ th[t].pc = "live"
    /\ th[t].mutable
    /\ IF len % PAGE_SIZE # 0
       THEN /\ panicked' = AssertFailed
            /\ UNCHANGED <<FRAME_ALLOCATOR, handles, zeroing, zeroed, ret, pt, th>>
       ELSE LET v     == th[t].vm
                slots == {va \in Slots : th[t].va <= va /\ va < th[t].va + len}
            IN /\ th[t].va + len <= th[t].end
               /\ pt' = [pt EXCEPT ![v] = Protected(@, slots, op)]
               /\ th' = [th EXCEPT ![t].va = @ + len, ![t].res = "protected",
                                   ![t].taken = {},
                                   ![t].log =
                                       IF len > TLB_FLUSH_THRESHOLD
                                       THEN <<tlb_flush_all_excluding_global>>
                                       ELSE ProtectLog(pt[v], slots, TRUE)]
               /\ UNCHANGED allocVars
    /\ UNCHANGED <<page_fault_handler, activateVars>>

\* A variant of protect() that takes any length.
protect_any_len(t, len, op) ==
    /\ panicked = NoPanic
    /\ th[t].pc = "live"
    /\ th[t].mutable
    /\ LET v     == th[t].vm
           slots == {va \in Slots : th[t].va <= va /\ va < th[t].va + len}
       IN /\ th[t].va + len <= th[t].end
          /\ pt' = [pt EXCEPT ![v] = Protected(@, slots, op)]
          /\ th' = [th EXCEPT ![t].va = @ + len, ![t].res = "protected",
                              ![t].taken = {},
                              ![t].log =
                                  IF len >= TLB_FLUSH_THRESHOLD
                                  THEN <<tlb_flush_all_excluding_global>>
                                  ELSE ProtectLog(pt[v], slots, TRUE)]
          /\ UNCHANGED allocVars
    /\ UNCHANGED <<page_fault_handler, activateVars>>

\* CursorMut::protect(len, op): aborts when len is not page-aligned;
\* otherwise applies op to the property of every mapping in [va, va + len)
\* and leaves the cursor at va + len. Below TLB_FLUSH_THRESHOLD the address
\* of every mapping changed is flushed; from the threshold on, the whole TLB
\* is flushed after the loop.
protect(t, len, op) ==
    /\ panicked = NoPanic
    /\ th[t].pc = "live"
    /\ th[t].mutable
    /\ IF len % PAGE_SIZE # 0
       THEN /\ panicked' = AssertFailed
            /\ UNCHANGED <<FRAME_ALLOCATOR, handles, zeroing, zeroed, ret, pt, th>>
       ELSE LET v     == th[t].vm
                slots == {va \in Slots : th[t].va <= va /\ va < th[t].va + len}
            IN /\ th[t].va + len <= th[t].end
               /\ pt' = [pt EXCEPT ![v] = Protected(@, slots, op)]
               /\ th' = [th EXCEPT ![t].va = @ + len, ![t].res = "protected",
                                   ![t].taken = {},
                                   ![t].log =
                                       IF len >= TLB_FLUSH_THRESHOLD
                                       THEN <<tlb_flush_all_excluding_global>>
                                       ELSE ProtectLog(pt[v], slots, TRUE)]
               /\ UNCHANGED allocVars
    /\ UNCHANGED <<page_fault_handler, activateVars>>

\* VmSpace::clear(): with a cursor over the whole user range, which waits
\* for every live cursor of the VmSpace, takes every mapping out of the
\* table and drops its frame handle, then flushes the whole TLB; panics at an
\* untracked mapping.
clear(t, v) ==
    /\ panicked = NoPanic
    /\ th[t].pc = "idle"
    /\ v \in owned
    /\ Conflicts(t, v, 0, MAX_USERSPACE_VADDR) = {}
    /\ IF \E va \in Slots : IsUntracked(pt[v][va])
       THEN TakeUntilUntracked(t, v, Slots, FALSE)
       ELSE /\ pt' = [pt EXCEPT ![v] = Unmapped(@, Slots)]
            /\ SetFrameState(DropMapped(FrameState, pt[v], Slots))
            /\ th' = [th EXCEPT ![t].res = "cleared",
                                ![t].taken = Taken(pt[v], Slots),
                                ![t].log = TakeLog(pt[v], Slots, FALSE)
                                           \o <<tlb_flush_all_excluding_global>>]
    /\ UNCHANGED <<page_fault_handler, activateVars>>

\* The table after the protect_next loop of fork_copy_on_write(): W is
\* removed from the property of every mapped slot.
WriteProtected(table) ==
    [va \in Slots |-> IF table[va].mapped
                      THEN Mapped(table[va].frame, table[va].prop \ {"W"})
                      ELSE NotMapped]

\* The handle counts after one more handle for every mapping of the table.
Shared(count, table) ==
    [f \in Frames |->
        count[f] + Cardinality({va \in Slots :
                                   table[va].mapped /\ table[va].frame = f})]

\* A variant of the new VmSpace of fork_copy_on_write() that starts with an
\* empty handler cell.
ForkedVmSpace_no_handler(t, v, child, table) ==
    /\ page_fault_handler' = [page_fault_handler EXCEPT ![child] = NULL]
    /\ strong' = [strong EXCEPT ![child] = 1]
    /\ owned' = owned \cup {child}
    /\ activated_cpus' = [activated_cpus EXCEPT ![child] = {}]
    /\ activated_cpus_lock' = [activated_cpus_lock EXCEPT ![child] = NoCpu]
    /\ th' = [th EXCEPT ![t].res = "forked", ![t].child = child,
                        ![t].taken = {},
                        ![t].log = <<tlb_flush_all_excluding_global>>]
    /\ UNCHANGED <<LAST_ACTIVATED_VM_SPACE, current_page_table, pc, self, last,
                   programmed, FRAME_ALLOCATOR, zeroing, zeroed, panicked, ret>>

\* The new VmSpace of fork_copy_on_write(): table, copied handler, empty
\* activation set, one Arc held by the caller.
ForkedVmSpace(t, v, child, table) ==
    /\ page_fault_handler' =
           [page_fault_handler EXCEPT ![child] = page_fault_handler[v]]
    /\ strong' = [strong EXCEPT ![child] = 1]
    /\ owned' = owned \cup {child}
    /\ activated_cpus' = [activated_cpus EXCEPT ![child] = {}]
    /\ activated_cpus_lock' = [activated_cpus_lock EXCEPT ![child] = NoCpu]
    /\ th' = [th EXCEPT ![t].res = "forked", ![t].child = child,
                        ![t].taken = {},
                        ![t].log = <<tlb_flush_all_excluding_global>>]
    /\ UNCHANGED <<LAST_ACTIVATED_VM_SPACE, current_page_table, pc, self, last,
                   programmed, FRAME_ALLOCATOR, zeroing, zeroed, panicked, ret>>

\* A variant of fork_copy_on_write() without the protect_next loop.
fork_copy_on_write_no_protect(t, v, child) ==
    /\ panicked = NoPanic
    /\ th[t].pc = "idle"
    /\ v \in owned
    /\ strong[child] = 0
    /\ Conflicts(t, v, 0, MAX_USERSPACE_VADDR) = {}
    /\ pt' = [pt EXCEPT ![child] = pt[v]]
    /\ handles' = Shared(handles, pt[v])
    /\ ForkedVmSpace(t, v, child, pt[v])

\* A variant of fork_copy_on_write() whose new table takes no handles of its
\* own to the frames.
fork_copy_on_write_no_share(t, v, child) ==
    /\ panicked = NoPanic
    /\ th[t].pc = "idle"
    /\ v \in owned
    /\ strong[child] = 0
    /\ Conflicts(t, v, 0, MAX_USERSPACE_VADDR) = {}
    /\ pt' = [pt EXCEPT ![v] = WriteProtected(pt[v]),
                        ![child] = WriteProtected(pt[v])]
    /\ handles' = handles
    /\ ForkedVmSpace(t, v, child, WriteProtected(pt[v]))

\* fork_copy_on_write(): with a cursor over the whole user range, which
\* waits for every live cursor of the VmSpace, removes W from every mapped
\* slot of the parent; the new table is a clone of the parent's that shares
\* the frames, each with a handle of its own.
fork_copy_on_write(t, v, child) ==
    /\ panicked = NoPanic
    /\ th[t].pc = "idle"
    /\ v \in owned
    /\ strong[child] = 0
    /\ Conflicts(t, v, 0, MAX_USERSPACE_VADDR) = {}
    /\ pt' = [pt EXCEPT ![v] = WriteProtected(pt[v]),
                        ![child] = WriteProtected(pt[v])]
    /\ handles' = Shared(handles, pt[v])
    /\ ForkedVmSpace(t, v, child, WriteProtected(pt[v]))

\* fork_copy_on_write() in the two steps other threads can tell apart. The
\* first, lines 201-220: cursor_mut over the whole user range, which waits
\* for every live cursor of the VmSpace, the protect_next loop and the flush
\* of the whole TLB; the caller then holds the cursor at the end of the range.
fork_protect_pass(t, v) ==
    /\ panicked = NoPanic
    /\ th[t].pc = "idle"
    /\ v \in owned
    /\ Conflicts(t, v, 0, MAX_USERSPACE_VADDR) = {}
    /\ pt' = [pt EXCEPT ![v] = WriteProtected(pt[v])]
    /\ th' = [th EXCEPT ![t] =
                 [Acquired(@, v, TRUE, 0, MAX_USERSPACE_VADDR, FALSE)
                     EXCEPT !.va = MAX_USERSPACE_VADDR, !.res = "forking",
                            !.log = <<tlb_flush_all_excluding_global>>]]
    /\ UNCHANGED <<page_fault_handler, activateVars, allocVars>>

\* The second step, lines 222-234: the handler is copied and the table is
\* cloned with the cursor, which is given up with that; the new table takes
\* a handle of its own to every frame.
fork_clone(t, child) ==
    /\ panicked = NoPanic
    /\ th[t].pc = "live"
    /\ th[t].res = "forking"
    /\ strong[child] = 0
    /\ LET v == th[t].vm
       IN /\ pt' = [pt EXCEPT ![child] = pt[v]]
          /\ handles' = Shared(handles, pt[v])
          /\ page_fault_handler' =
                 [page_fault_handler EXCEPT ![child] = page_fault_handler[v]]
    /\ strong' = [strong EXCEPT ![child] = 1]
    /\ owned' = owned \cup {child}
    /\ activated_cpus' = [activated_cpus EXCEPT ![child] = {}]
    /\ activated_cpus_lock' = [activated_cpus_lock EXCEPT ![child] = NoCpu]
    /\ th' = [th EXCEPT ![t] =
                 [ThreadIdle EXCEPT !.frame = th[t].frame, !.vm = th[t].vm,
                                    !.res = "forked", !.child = child,
                                    !.log = th[t].log]]
    /\ UNCHANGED <<LAST_ACTIVATED_VM_SPACE, current_page_table, pc, self, last,
                   programmed, FRAME_ALLOCATOR, zeroing, zeroed, panicked, ret>>

(***************************************************************************)
(* The backlog of a listening Unix stream socket (listener.rs, Backlog).   *)
(*                                                                         *)
(* push_incoming, pop_incoming and poll run with the Mutex of the queue    *)
(* held; a call is cut where it takes the Mutex and between its change of  *)
(* the queue and its change of the pollee. set_backlog is one atomic       *)
(* store and takes no lock.                                                *)
(***************************************************************************)
NetThreads == 1 .. MaxNetThreads
NoThread == 0
Backlogs == 0 .. MaxBacklog
\* The connection that stands for "no connection" in a call record.
NoConn == 0

EAGAIN == "EAGAIN"

\* IoEvents, and the masks poll() is called with.
IoEvents == {"IN", "OUT"}
Masks == {{"IN"}, {"OUT"}, {"IN", "OUT"}}

\* A thread that is in no socket call and has made none.
CallIdle == [pc |-> "idle", op |-> "", mask |-> {}, conn |-> NoConn,
             res |-> "", events |-> {}]

\* Inner::Unbound(..), and Inner::Bound(..) of a datagram bound to the
\* local endpoint `endpoint` with no remote endpoint yet.
Unbound == [state |-> "Unbound"]
Bound(endpoint) == [state |-> "Bound", local |-> endpoint, remote |-> None]

\* DatagramSocket::new: Inner::Unbound, nobody in the RwLock.
InitDatagramVars ==
    /\ inner = Unbound
    /\ inner_lock = NoThread
    /\ bindings = 0

\* Backlog::new(addr, backlog), with no thread in a call.
InitNetVars ==
    /\ incoming_conns = <<>>
    /\ incoming_conns_lock = NoThread
    /\ pollee = {}
    /\ backlog = 0
    /\ pairs = 0
    /\ InitDatagramVars
    /\ call = [t \in NetThreads |-> CallIdle]

\* Pollee::add_events(events), del_events(events) and poll(mask, poller):
\* the events of the pollee after the call, and the events poll() returns.
add_events(events) == pollee \cup events
del_events(events) == pollee \ events
Pollee_poll(mask) == pollee \cap mask

NotListener == <<allocVars, activateVars, vmVars, datagramVars>>

\* self.incoming_conns.lock() of the call `op`: the thread waits until the
\* Mutex is free and takes it.
incoming_conns_lock_acquire(t, op, mask) ==
    /\ call[t].pc = "idle"
    /\ incoming_conns_lock = NoThread
    /\ incoming_conns_lock' = t
    /\ call' = [call EXCEPT ![t] = [CallIdle EXCEPT !.pc = "locked", !.op = op,
                                                    !.mask = mask]]
    /\ UNCHANGED <<incoming_conns, pollee, backlog, pairs, NotListener>>

\* A variant of push_incoming() that takes a connection while the queue is
\* not longer than the limit (> for >=).
push_incoming_one_more(t) ==
    /\ call[t].pc = "locked"
    /\ call[t].op = "push_incoming"
    /\ IF Len(incoming_conns) > backlog
       THEN /\ incoming_conns_lock' = NoThread
            /\ call' = [call EXCEPT ![t].pc = "idle", ![t].res = EAGAIN]
            /\ UNCHANGED <<incoming_conns, pairs>>
       ELSE /\ pairs' = pairs + 1
            /\ incoming_conns' = Append(incoming_conns, pairs + 1)
            /\ call' = [call EXCEPT ![t].pc = "pushed", ![t].conn = pairs + 1]
            /\ UNCHANGED incoming_conns_lock
    /\ UNCHANGED <<pollee, backlog, NotListener>>

\* push_incoming(), lines 146-154, with the Mutex held: EAGAIN when the
\* queue is as long as the limit loaded from self.backlog or longer;
\* otherwise a new pair of connections, whose server end goes to the back
\* of the queue.
push_incoming(t) ==
    /\ call[t].pc = "locked"
    /\ call[t].op = "push_incoming"
    /\ IF Len(incoming_conns) >= backlog
       THEN /\ incoming_conns_lock' = NoThread
            /\ call' = [call EXCEPT ![t].pc = "idle", ![t].res = EAGAIN]
            /\ UNCHANGED <<incoming_conns, pairs>>
       ELSE /\ pairs' = pairs + 1
            /\ incoming_conns' = Append(incoming_conns, pairs + 1)
            /\ call' = [call EXCEPT ![t].pc = "pushed", ![t].conn = pairs + 1]
            /\ UNCHANGED incoming_conns_lock
    /\ UNCHANGED <<pollee, backlog, NotListener>>

\* push_incoming(), lines 156-158: self.pollee.add_events(IoEvents::IN),
\* Ok(client_conn); the Mutex is released at the return.
push_incoming_add_events(t) ==
    /\ call[t].pc = "pushed"
    /\ pollee' = add_events({"IN"})
    /\ incoming_conns_lock' = NoThread
    /\ call' = [call EXCEPT ![t].pc = "idle", ![t].res = "Ok"]
    /\ UNCHANGED <<incoming_conns, backlog, pairs, NotListener>>

\* pop_incoming(), line 163, with the Mutex held: incoming_conns.pop_front()
pop_incoming(t) ==
    /\ call[t].pc = "locked"
    /\ call[t].op = "pop_incoming"
    /\ IF incoming_conns = <<>>
       THEN /\ call' = [call EXCEPT ![t].pc = "popped", ![t].conn = NoConn]
            /\ UNCHANGED incoming_conns
       ELSE /\ call' = [call EXCEPT ![t].pc = "popped",
                                    ![t].conn = Head(incoming_conns)]
            /\ incoming_conns' = Tail(incoming_conns)
    /\ UNCHANGED <<incoming_conns_lock, pollee, backlog, pairs, NotListener>>

\* A variant of pop_incoming() that deletes IN whenever it took a connection.
pop_incoming_del_events_if_popped(t) ==
    /\ call[t].pc = "popped"
    /\ pollee' = IF call[t].conn # NoConn THEN del_events({"IN"}) ELSE pollee
    /\ incoming_conns_lock' = NoThread
    /\ call' = [call EXCEPT ![t].pc = "idle",
                            ![t].res = IF call[t].conn = NoConn THEN EAGAIN
                                       ELSE "Ok"]
    /\ UNCHANGED <<incoming_conns, backlog, pairs, NotListener>>

\* pop_incoming(), lines 164-167: IN is deleted when the queue is empty
\* now; the connection is returned, EAGAIN when there was none; the Mutex is
\* released at the return.
pop_incoming_del_events(t) ==
    /\ call[t].pc = "popped"
    /\ pollee' = IF incoming_conns = <<>> THEN del_events({"IN"}) ELSE pollee
    /\ incoming_conns_lock' = NoThread
    /\ call' = [call EXCEPT ![t].pc = "idle",
                            ![t].res = IF call[t].conn = NoConn THEN EAGAIN
                                       ELSE "Ok"]
    /\ UNCHANGED <<incoming_conns, backlog, pairs, NotListener>>

\* set_backlog(backlog): self.backlog.store(backlog, Relaxed)
set_backlog(b) ==
    /\ backlog' = b
    /\ UNCHANGED <<incoming_conns, incoming_conns_lock, pollee, pairs, call,
                   NotListener>>

\* poll(mask, poller), line 177, with the Mutex held: the events of the
\* pollee that the mask asks for; the Mutex is released at the return.
poll(t) ==
    /\ call[t].pc = "locked"
    /\ call[t].op = "poll"
    /\ incoming_conns_lock' = NoThread
    /\ call' = [call EXCEPT ![t].pc = "idle", ![t].res = "Ok",
                            ![t].events = Pollee_poll(call[t].mask)]
    /\ UNCHANGED <<incoming_conns, pollee, backlog, pairs, NotListener>>

(***************************************************************************)
(* The binding of a datagram socket (datagram/mod.rs, DatagramSocket).     *)
(*                                                                         *)
(* inner is an RwLock<Takeable<Inner>>. A call is cut where it waits for   *)
(* the RwLock: a section under inner.write() is one step after the step    *)
(* that takes the lock, a section under inner.read() is one step that is   *)
(* enabled while no writer holds the lock.                                 *)
(***************************************************************************)
\* The endpoints bind() is called with, the endpoints
\* get_ephemeral_endpoint can choose, and the remote endpoints.
BindEndpoints == {"local1", "local2"}
EphemeralEndpoints == {"ephemeral1", "ephemeral2"}
RemoteEndpoints == {"remote1", "remote2"}
\* A SocketAddr that is no IP address: socket_addr.try_into() fails on it.
NotIp == "unix"

EINVAL == "EINVAL"
EDESTADDRREQ == "EDESTADDRREQ"
\* The error of a failed socket_addr.try_into(), and the error of a failed
\* UnboundDatagram::bind.
TryIntoError == "try_into failed"
BindError == "UnboundDatagram::bind failed"

NotDatagram == <<allocVars, activateVars, vmVars, listenerVars>>

\* A thread that is in no call of the datagram socket and has made none.
\* slow: the call went through the slow path of try_bind_ephemeral.
SockIdle == [pc |-> "idle", op |-> "", endpoint |-> None, can_reuse |-> FALSE,
             slow |-> FALSE, res |-> ""]

\* UnboundDatagram::bind(endpoint, can_reuse), which is `ok` when the
\* interface accepts the endpoint: the bound datagram, or the error with
\* the unbound datagram handed back.
UnboundDatagram_bind(endpoint, can_reuse, ok) ==
    IF ok THEN [ok |-> TRUE, inner |-> Bound(endpoint), created |-> TRUE]
    ELSE [ok |-> FALSE, inner |-> Unbound, created |-> FALSE, err |-> BindError]

\* Inner::bind(self, endpoint, can_reuse), lines 59-79.
Inner_bind(owned_inner, endpoint, can_reuse, ok) ==
    IF owned_inner.state = "Bound"
    THEN [ok |-> FALSE, inner |-> owned_inner, created |-> FALSE, err |-> EINVAL]
    ELSE UnboundDatagram_bind(endpoint, can_reuse, ok)

\* A variant of bind_to_ephemeral_endpoint that binds a bound socket anew.
bind_to_ephemeral_endpoint_anew(owned_inner, endpoint, ok) ==
    UnboundDatagram_bind(endpoint, FALSE, ok)

\* Inner::bind_to_ephemeral_endpoint(self, remote_endpoint), lines 81-91,
\* where `endpoint` is what get_ephemeral_endpoint chooses.
bind_to_ephemeral_endpoint(owned_inner, endpoint, ok) ==
    IF owned_inner.state = "Bound"
    THEN [ok |-> TRUE, inner |-> owned_inner, created |-> FALSE]
    ELSE Inner_bind(owned_inner, endpoint, FALSE, ok)

\* The step after try_bind_ephemeral returned Ok(()): connect goes on to
\* inner.write() (297), sendmsg to try_send (356).
AfterEphemeral(op) == IF op = "connect" THEN "connect_write" ELSE "try_send"

\* bind(socket_addr), lines 275-278: try_into and the read of reuse_addr.
bind_try_into(t, socket_addr, can_reuse) ==
    /\ call[t].pc = "idle"
    /\ call' = [call EXCEPT ![t] =
          IF socket_addr = NotIp
          THEN [SockIdle EXCEPT !.op = "bind", !.res = TryIntoError]
          ELSE [SockIdle EXCEPT !.op = "bind", !.pc = "bind_write",
                                !.endpoint = Some(socket_addr),
                                !.can_reuse = can_reuse]]
    /\ UNCHANGED <<datagramVars, NotDatagram>>

\* self.inner.write() (133, 279, 297): the thread waits until nobody holds
\* the RwLock and takes it.
inner_write(t) ==
    /\ call[t].pc \in {"bind_write", "ephemeral_write", "connect_write"}
    /\ inner_lock = NoThread
    /\ inner_lock' = t
    /\ call' = [call EXCEPT ![t].pc =
          CASE call[t].pc = "bind_write" -> "bind"
            [] call[t].pc = "ephemeral_write" -> "try_bind_ephemeral"
            [] OTHER -> "connect"]
    /\ UNCHANGED <<inner, bindings, NotDatagram>>

\* bind(), lines 280-289, with the RwLock held for writing: borrow_result
\* puts back what Inner::bind returns, the bound datagram or the inner of
\* the error.
bind(t, ok) ==
    /\ call[t].pc = "bind"
    /\ LET r == Inner_bind(inner, Unwrap(call[t].endpoint), call[t].can_reuse, ok)
       IN /\ inner' = r.inner
          /\ bindings' = IF r.created THEN bindings + 1 ELSE bindings
          /\ call' = [call EXCEPT ![t].pc = "idle",
                                  ![t].res = IF r.ok THEN "Ok" ELSE r.err]
    /\ inner_lock' = NoThread
    /\ UNCHANGED NotDatagram

\* connect(socket_addr), line 293: try_into, then try_bind_ephemeral.
connect_try_into(t, socket_addr) ==
    /\ call[t].pc = "idle"
    /\ call' = [call EXCEPT ![t] =
          IF socket_addr = NotIp
          THEN [SockIdle EXCEPT !.op = "connect", !.res = TryIntoError]
          ELSE [SockIdle EXCEPT !.op = "connect", !.pc = "ephemeral_fast",
                                !.endpoint = Some(socket_addr)]]
    /\ UNCHANGED <<datagramVars, NotDatagram>>

\* sendmsg(.., message_header, ..), lines 333-346: with an address, try_into
\* and try_bind_ephemeral; without one, remote_endpoint() under
\* inner.read(), and EDESTADDRREQ when there is none.
sendmsg(t, addr) ==
    /\ call[t].pc = "idle"
    /\ IF addr # None
       THEN call' = [call EXCEPT ![t] =
              IF Unwrap(addr) = NotIp
              THEN [SockIdle EXCEPT !.op = "sendmsg", !.res = TryIntoError]
              ELSE [SockIdle EXCEPT !.op = "sendmsg", !.pc = "ephemeral_fast",
                                    !.endpoint = addr]]
       ELSE /\ inner_lock = NoThread
            /\ LET remote == IF inner.state = "Bound" THEN inner.remote ELSE None
               IN call' = [call EXCEPT ![t] =
                     IF remote = None
                     THEN [SockIdle EXCEPT !.op = "sendmsg", !.res = EDESTADDRREQ]
                     ELSE [SockIdle EXCEPT !.op = "sendmsg", !.pc = "try_send",
                                           !.endpoint = remote]]
    /\ UNCHANGED <<datagramVars, NotDatagram>>

\* try_bind_ephemeral(), the fast path (128-130): Ok(()) when inner, read
\* under inner.read(), is Bound.
try_bind_ephemeral_fast(t) ==
    /\ call[t].pc = "ephemeral_fast"
    /\ inner_lock = NoThread
    /\ call' = [call EXCEPT ![t].pc =
          IF inner.state = "Bound" THEN AfterEphemeral(call[t].op)
          ELSE "ephemeral_write"]
    /\ UNCHANGED <<datagramVars, NotDatagram>>

\* try_bind_ephemeral(), the slow path (134-143) with the RwLock held for
\* writing: borrow_result puts back what bind_to_ephemeral_endpoint
\* returns; an error ends the call of connect or sendmsg.
try_bind_ephemeral(t, endpoint, ok) ==
    /\ call[t].pc = "try_bind_ephemeral"
    /\ LET r == bind_to_ephemeral_endpoint(inner, endpoint, ok)
       IN /\ inner' = r.inner
          /\ bindings' = IF r.created THEN bindings + 1 ELSE bindings
          /\ call' = [call EXCEPT
                ![t].slow = TRUE,
                ![t].pc = IF r.ok THEN AfterEphemeral(call[t].op) ELSE "idle",
                ![t].res = IF r.ok THEN "" ELSE r.err]
    /\ inner_lock' = NoThread
    /\ UNCHANGED NotDatagram

\* connect(), lines 298-303, with the RwLock held for writing:
\* set_remote_endpoint on the bound datagram; EINVAL when inner is Unbound.
connect(t) ==
    /\ call[t].pc = "connect"
    /\ IF inner.state = "Bound"
       THEN /\ inner' = [inner EXCEPT !.remote = call[t].endpoint]
            /\ call' = [call EXCEPT ![t].pc = "idle", ![t].res = "Ok"]
       ELSE /\ call' = [call EXCEPT ![t].pc = "idle", ![t].res = EINVAL]
            /\ UNCHANGED inner
    /\ inner_lock' = NoThread
    /\ UNCHANGED <<bindings, NotDatagram>>

\* try_send(buf, remote, flags), lines 174-192, under inner.read(): EAGAIN
\* when inner is not Bound, else what the bound datagram's try_send returns.
try_send(t, sent) ==
    /\ call[t].pc = "try_send"
    /\ inner_lock = NoThread
    /\ call' = [call EXCEPT ![t].pc = "idle",
                            ![t].res = IF inner.state # "Bound" THEN EAGAIN
                                       ELSE IF sent THEN "Ok" ELSE "try_send failed"]
    /\ UNCHANGED <<datagramVars, NotDatagram>>

\* The state after init() with one usable region of MaxVmFrames frames.
InitVm ==
    /\ FRAME_ALLOCATOR =
           OnceOf(AddRegions(EmptyFreeList,
                             <<Region(Usable, 0, MaxVmFrames * PAGE_SIZE)>>, 1))
    /\ handles = [f \in Frames |-> 0]
    /\ zeroing = {}
    /\ zeroed = {}
    /\ panicked = NoPanic
    /\ ret = Returned("init", 0, FALSE, <<>>)
    /\ InitActivateVars
    /\ InitVmVars
    /\ InitNetVars

(***************************************************************************)
(* Readers and writers of user memory (vm_space.rs, reader and writer).    *)
(***************************************************************************)
\* usize::MAX, for a usize of 30 bits: sums of two usize values stay within
\* the integers of the model checker.
USIZE_MAX == Pow2(30) - 1

\* usize::checked_add and Option::unwrap_or
checked_add(a, b) == IF a + b > USIZE_MAX THEN None ELSE Some(a + b)
unwrap_or(o, default) == IF o = None THEN default ELSE Unwrap(o)

AccessDenied == "AccessDenied"

\* The addresses and lengths reader() and writer() are called with.
UserAddrs == {0, 1, USIZE_MAX}
UserLens == {1, PAGE_SIZE, MAX_USERSPACE_VADDR, USIZE_MAX}

\* A variant of reader() / writer() without the test of the active table.
user_accessor_any_table(kind, t, cpu, v, vaddr, len) ==
    /\ panicked = NoPanic
    /\ pc[cpu] = "idle"
    /\ v \in owned
    /\ th' = [th EXCEPT ![t] =
                 IF unwrap_or(checked_add(vaddr, len), USIZE_MAX) > MAX_USERSPACE_VADDR
                 THEN [@ EXCEPT !.res = AccessDenied, !.accessor = None]
                 ELSE [@ EXCEPT !.res = "Ok",
                                !.accessor = Some(<<kind, vaddr, len>>)]]
    /\ UNCHANGED <<pt, page_fault_handler, activateVars, allocVars>>

\* The body reader() and writer() share: AccessDenied when the table in the
\* root register of the calling CPU is not that of self, AccessDenied when
\* vaddr + len overflows or is above MAX_USERSPACE_VADDR, otherwise an
\* accessor of `kind` over the range. The caller is thread t on `cpu`.
user_accessor(kind, t, cpu, v, vaddr, len) ==
    /\ panicked = NoPanic
    /\ pc[cpu] = "idle"
    /\ v \in owned
    /\ th' = [th EXCEPT ![t] =
                 IF current_page_table[cpu] # v
                 THEN [@ EXCEPT !.res = AccessDenied, !.accessor = None]
                 ELSE IF unwrap_or(checked_add(vaddr, len), USIZE_MAX)
                            > MAX_USERSPACE_VADDR
                 THEN [@ EXCEPT !.res = AccessDenied, !.accessor = None]
                 ELSE [@ EXCEPT !.res = "Ok",
                                !.accessor = Some(<<kind, vaddr, len>>)]]
    /\ UNCHANGED <<pt, page_fault_handler, activateVars, allocVars>>

\* reader(vaddr, len)
reader(t, cpu, v, vaddr, len) == user_accessor("VmReader", t, cpu, v, vaddr, len)

\* writer(vaddr, len)
writer(t, cpu, v, vaddr, len) == user_accessor("VmWriter", t, cpu, v, vaddr, len)

(***************************************************************************)
(* Observed calls. A call through a CursorMut is recorded when it returns: *)
(* the position it started at, its arguments, and what it did.             *)
(***************************************************************************)
CallRecord(op, t, len, prop) ==
    [op |-> op, v |-> th[t].vm, va |-> th[t].va, len |-> len,
     frame |-> th[t].frame, prop |-> prop,
     before |-> query_item(th[t].vm, th[t].va),
     found |-> {a \in Slots : /\ th[t].va <= a /\ a < th[t].va + len
                              /\ pt[th[t].vm][a].mapped},
     va_after |-> th'[t].va,
     log |-> IF th'[t] = th[t] THEN <<>> ELSE th'[t].log,
     changed |-> (pt' # pt \/ handles' # handles
                    \/ FRAME_ALLOCATOR' # FRAME_ALLOCATOR),
     panicked |-> panicked']

Observed(op, t, len, prop) ==
    /\ Len(trace) < MaxTrace
    /\ trace' = Append(trace, CallRecord(op, t, len, prop))
    /\ UNCHANGED netVars

(***************************************************************************)
(* Page faults (vm_space.rs, handle_page_fault).                           *)
(***************************************************************************)
Infos == 1 .. MaxInfos

\* What the registered functions return: fn(&VmSpace, &CpuExceptionInfo) ->
\* Result<(), ()>. The functions are the callers'; each combination of
\* function, VmSpace and info has a fixed verdict, and both verdicts occur.
Verdict(func, v, info) == IF (func + v + info) % 2 = 0 THEN "Ok(())" ELSE "Err(())"

\* An invocation of a registered function.
handler_call(func, v, info) == <<"page_fault_handler", func, v, info>>

\* A variant of handle_page_fault() that reports every fault it passed to a
\* handler as handled.
handle_page_fault_always_ok(t, v, info) ==
    /\ panicked = NoPanic
    /\ th[t].pc = "idle"
    /\ v \in owned
    /\ th' = [th EXCEPT ![t] =
                 IF page_fault_handler[v] # NULL
                 THEN [@ EXCEPT !.res = "Ok(())",
                                !.log = <<handler_call(page_fault_handler[v], v, info)>>]
                 ELSE [@ EXCEPT !.res = "Err(())", !.log = <<>>]]
    /\ UNCHANGED <<pt, page_fault_handler, activateVars, allocVars>>

\* handle_page_fault(info): the registered function is called with the
\* VmSpace and info and its result returned; Err(()) without one.
handle_page_fault(t, v, info) ==
    /\ panicked = NoPanic
    /\ th[t].pc = "idle"
    /\ v \in owned
    /\ th' = [th EXCEPT ![t] =
                 IF page_fault_handler[v] # NULL
                 THEN [@ EXCEPT !.res = Verdict(page_fault_handler[v], v, info),
                                !.log = <<handler_call(page_fault_handler[v], v, info)>>]
                 ELSE [@ EXCEPT !.res = "Err(())", !.log = <<>>]]
    /\ UNCHANGED <<pt, page_fault_handler, activateVars, allocVars>>

\* The record of a register_page_fault_handler() or handle_page_fault() call:
\* its arguments, the Once cell before and after, and for a fault the result
\* and the invocations made.
FaultRecord(op, t, v, func, info) ==
    [op |-> op, v |-> v, func |-> func, info |-> info,
     handler |-> page_fault_handler[v], after |-> page_fault_handler'[v],
     res |-> IF op = "handle_page_fault" THEN th'[t].res ELSE "",
     log |-> IF op = "handle_page_fault" THEN th'[t].log ELSE <<>>]

ObservedFault(op, t, v, func, info) ==
    /\ Len(trace) < MaxFaultTrace
    /\ trace' = Append(trace, FaultRecord(op, t, v, func, info))
    /\ UNCHANGED netVars

(***************************************************************************)
(* Untracked memory. VmSpace maps Frames only; a mapping of untracked      *)
(* memory in a user page table is made by other kernel code through the    *)
(* page table itself.                                                      *)
(***************************************************************************)
map_untracked(v, va, prop) ==
    /\ panicked = NoPanic
    /\ v \in owned
    /\ ~pt[v][va].mapped
    /\ \A u \in Threads :
          ~(th[u].pc = "live" /\ th[u].vm = v /\ th[u].start <= va /\ va < th[u].end)
    /\ pt' = [pt EXCEPT ![v][va] = MappedUntracked(prop)]
    /\ UNCHANGED <<page_fault_handler, th, activateVars, allocVars>>

(***************************************************************************)
(* Iteration. The next() and query() calls of the live Cursor are recorded *)
(* with the position before and after and with what they returned.         *)
(***************************************************************************)
IterRecord(op, t) ==
    [op |-> op, v |-> th[t].vm, start |-> th[t].start, end |-> th[t].end,
     va |-> th[t].va,
     item |-> IF op = "next" THEN next_result(t)
              ELSE Some(query_item(th[t].vm, th[t].va)),
     got |-> th'[t].frame,
     va_after |-> th'[t].va,
     panicked |-> panicked']

ObservedIter(op, t) ==
    /\ Len(trace) < MaxIterTrace
    /\ trace' = Append(trace, IterRecord(op, t))
    /\ UNCHANGED netVars

(***************************************************************************)
(* Two CursorMuts over disjoint ranges of one VmSpace. The calls of both   *)
(* are recorded in the order they take effect, each with its thread and    *)
(* its arguments; Replay runs a sequence of recorded calls on a table.     *)
(***************************************************************************)
\* The range of the CursorMut of thread t: the first page for thread 1, the
\* pages above it for thread 2.
RangeOf(t) ==
    IF t = 1 THEN [start |-> 0, end |-> PAGE_SIZE]
    ELSE [start |-> PAGE_SIZE, end |-> MaxPages * PAGE_SIZE]

PairRecord(op, t, len, prop) ==
    [op |-> op, t |-> t, va |-> th[t].va, len |-> len,
     frame |-> th[t].frame, prop |-> prop]

ObservedPair(op, t, len, prop) ==
    /\ Len(trace) < MaxPairTrace
    /\ trace' = Append(trace, PairRecord(op, t, len, prop))
    /\ UNCHANGED netVars

\* The table after one recorded call run on its own.
ReplayCall(table, c) ==
    LET slots == {va \in Slots : c.va <= va /\ va < c.va + c.len}
    IN IF c.op = "map"
       THEN [table EXCEPT ![c.va] = Mapped(c.frame, c.prop \cup {"ACCESSED"})]
       ELSE IF c.op = "unmap" THEN Unmapped(table, slots)
       ELSE Protected(table, slots, CHOOSE op \in c.prop : TRUE)

RECURSIVE Replay(_, _)
Replay(table, calls) ==
    IF calls = <<>> THEN table
    ELSE Replay(ReplayCall(table, Head(calls)), Tail(calls))

\* The recorded calls of thread t, in the order it issued them.
CallsOf(t) == SelectSeq(trace, LAMBDA c : c.t = t)

(***************************************************************************)
(* The specifications.                                                     *)
(***************************************************************************)
Init == InitAllocVars /\ InitActivateVars /\ InitVmVars /\ InitNetVars

NextAlloc ==
    \/ \E regions \in RegionLists : init(regions) /\ UNCHANGED <<activateVars, vmVars, netVars>>
    \/ alloc /\ UNCHANGED <<activateVars, vmVars, netVars>>
    \/ \E n \in 0 .. MaxCount : alloc_continuous(n) /\ UNCHANGED <<activateVars, vmVars, netVars>>
    \/ alloc_zero /\ UNCHANGED <<activateVars, vmVars, netVars>>
    \/ \E f \in Frames : alloc_zero_return(f) /\ UNCHANGED <<activateVars, vmVars, netVars>>
    \/ \E index \in Frames : dealloc(index) /\ UNCHANGED <<activateVars, vmVars, netVars>>
    \/ \E f \in Frames : WriteFrame(f) /\ UNCHANGED <<activateVars, vmVars, netVars>>

SpecAlloc == Init /\ [][NextAlloc]_vars

NextActivate ==
    \/ \E v \in VmSpaces : VmSpace_new(v) /\ UNCHANGED <<trace, netVars>>
    \/ \E v \in VmSpaces : VmSpace_drop(v) /\ UNCHANGED <<trace, netVars>>
    \/ \E v \in VmSpaces, func \in Handlers : register_page_fault_handler(v, func) /\ UNCHANGED <<trace, netVars>>
    \/ \E cpu \in CPUs, v \in VmSpaces : activate_lock_self(cpu, v) /\ UNCHANGED <<trace, netVars>>
    \/ \E cpu \in CPUs : activate_lock_last(cpu) /\ UNCHANGED <<trace, netVars>>

SpecActivate == Init /\ [][NextActivate]_vars

NextCursor ==
    \/ \E v \in VmSpaces : VmSpace_new(v) /\ UNCHANGED <<trace, netVars>>
    \/ \E v \in VmSpaces : VmSpace_drop(v) /\ UNCHANGED <<trace, netVars>>
    \/ \E t \in Threads, v \in VmSpaces, mutable \in BOOLEAN,
          start \in CursorBounds, end \in CursorBounds :
            cursor_call(t, v, mutable, start, end) /\ UNCHANGED <<trace, netVars>>
    \/ \E t \in Threads : cursor_acquire(t) /\ UNCHANGED <<trace, netVars>>
    \/ \E t \in Threads : cursor_drop(t) /\ UNCHANGED <<trace, netVars>>

SpecCursor == Init /\ [][NextCursor]_vars

NextVm ==
    \/ \E v \in VmSpaces : VmSpace_new(v) /\ UNCHANGED <<trace, netVars>>
    \/ \E v \in VmSpaces : VmSpace_drop(v) /\ UNCHANGED <<trace, netVars>>
    \/ \E t \in VmThreads, v \in VmSpaces, mutable \in BOOLEAN,
          start \in PageBounds, end \in PageBounds :
            cursor_call(t, v, mutable, start, end) /\ UNCHANGED <<trace, netVars>>
    \/ \E t \in VmThreads : cursor_drop(t) /\ UNCHANGED <<trace, netVars>>
    \/ \E t \in VmThreads : frame_alloc(t) /\ UNCHANGED <<trace, netVars>>
    \/ \E t \in VmThreads : frame_drop(t) /\ UNCHANGED <<trace, netVars>>
    \/ \E t \in VmThreads : query(t) /\ UNCHANGED <<trace, netVars>>
    \/ \E t \in VmThreads, prop \in Props : map(t, prop) /\ UNCHANGED <<trace, netVars>>
    \/ \E t \in VmThreads, len \in Lens : unmap(t, len) /\ UNCHANGED <<trace, netVars>>
    \/ \E t \in VmThreads, v \in VmSpaces : clear(t, v) /\ UNCHANGED <<trace, netVars>>
    \/ \E t \in VmThreads, v \in VmSpaces, child \in VmSpaces :
            fork_copy_on_write(t, v, child) /\ UNCHANGED <<trace, netVars>>

SpecVm == InitVm /\ [][NextVm]_vars

NextAccess ==
    \/ \E v \in VmSpaces : VmSpace_new(v) /\ UNCHANGED <<trace, netVars>>
    \/ \E v \in VmSpaces : VmSpace_drop(v) /\ UNCHANGED <<trace, netVars>>
    \/ \E cpu \in CPUs, v \in VmSpaces : activate_lock_self(cpu, v) /\ UNCHANGED <<trace, netVars>>
    \/ \E cpu \in CPUs : activate_lock_last(cpu) /\ UNCHANGED <<trace, netVars>>
    \/ \E t \in VmThreads, cpu \in CPUs, v \in VmSpaces,
          vaddr \in UserAddrs, len \in UserLens : reader(t, cpu, v, vaddr, len) /\ UNCHANGED <<trace, netVars>>
    \/ \E t \in VmThreads, cpu \in CPUs, v \in VmSpaces,
          vaddr \in UserAddrs, len \in UserLens : writer(t, cpu, v, vaddr, len) /\ UNCHANGED <<trace, netVars>>

SpecAccess == Init /\ [][NextAccess]_vars

\* One thread maps and unmaps frames; every map() and unmap() is recorded.
NextTrip ==
    \/ \E v \in VmSpaces : VmSpace_new(v) /\ UNCHANGED <<trace, netVars>>
    \/ \E t \in VmThreads, v \in VmSpaces, start \in PageBounds, end \in PageBounds :
            cursor_call(t, v, TRUE, start, end) /\ UNCHANGED <<trace, netVars>>
    \/ \E t \in VmThreads : cursor_drop(t) /\ UNCHANGED <<trace, netVars>>
    \/ \E t \in VmThreads : frame_alloc(t) /\ UNCHANGED <<trace, netVars>>
    \/ \E t \in VmThreads, prop \in Props :
            map(t, prop) /\ Observed("map", t, PAGE_SIZE, prop)
    \/ \E t \in VmThreads, len \in Lens :
            unmap(t, len) /\ Observed("unmap", t, len, {})

SpecTrip == InitVm /\ [][NextTrip]_vars

\* Handlers are registered and faults handled by any number of callers in
\* any order; every call is recorded.
NextFault ==
    \/ \E v \in VmSpaces : VmSpace_new(v) /\ UNCHANGED <<trace, netVars>>
    \/ \E t \in Threads, v \in VmSpaces, func \in Handlers :
            register_page_fault_handler(v, func)
            /\ ObservedFault("register_page_fault_handler", t, v, func, 0)
    \/ \E t \in Threads, v \in VmSpaces, info \in Infos :
            handle_page_fault(t, v, info)
            /\ ObservedFault("handle_page_fault", t, v, NULL, info)

SpecFault == Init /\ [][NextFault]_vars

\* VmSpaces are created, given handlers, activated, forked and dropped.
NextFork ==
    \/ \E v \in VmSpaces : VmSpace_new(v) /\ UNCHANGED <<trace, netVars>>
    \/ \E v \in VmSpaces : VmSpace_drop(v) /\ UNCHANGED <<trace, netVars>>
    \/ \E v \in VmSpaces, func \in Handlers :
            register_page_fault_handler(v, func) /\ UNCHANGED <<trace, netVars>>
    \/ \E cpu \in CPUs, v \in VmSpaces : activate_lock_self(cpu, v) /\ UNCHANGED <<trace, netVars>>
    \/ \E cpu \in CPUs : activate_lock_last(cpu) /\ UNCHANGED <<trace, netVars>>
    \/ \E t \in VmThreads, v \in VmSpaces, child \in VmSpaces :
            fork_copy_on_write(t, v, child) /\ UNCHANGED <<trace, netVars>>

SpecFork == Init /\ [][NextFork]_vars

\* The cursor ranges and the lengths around TLB_FLUSH_THRESHOLD that unmap()
\* and protect() are called with.
TlbStarts == {0}
TlbEnds == {MAX_USERSPACE_VADDR}
TlbLens == {1, PAGE_SIZE, TLB_FLUSH_THRESHOLD - PAGE_SIZE,
            TLB_FLUSH_THRESHOLD, TLB_FLUSH_THRESHOLD + PAGE_SIZE}

\* One thread maps frames in one VmSpace and unmaps or protects ranges below,
\* at and above the threshold; every map(), unmap() and protect() is recorded.
NextTlb ==
    \/ \E v \in {1} : VmSpace_new(v) /\ UNCHANGED <<trace, netVars>>
    \/ \E t \in VmThreads, v \in {1}, start \in TlbStarts, end \in TlbEnds :
            cursor_call(t, v, TRUE, start, end) /\ UNCHANGED <<trace, netVars>>
    \/ \E t \in VmThreads : cursor_drop(t) /\ UNCHANGED <<trace, netVars>>
    \/ \E t \in VmThreads : frame_alloc(t) /\ UNCHANGED <<trace, netVars>>
    \/ \E t \in VmThreads, prop \in Props :
            map(t, prop) /\ Observed("map", t, PAGE_SIZE, prop)
    \/ \E t \in VmThreads, len \in TlbLens :
            unmap(t, len) /\ Observed("unmap", t, len, {})
    \/ \E t \in VmThreads, len \in TlbLens, op \in ProtectOps :
            protect(t, len, op) /\ Observed("protect", t, len, {op})

SpecTlb == InitVm /\ [][NextTlb]_vars

\* One thread works on a VmSpace into which untracked memory may be mapped.
NextUntracked ==
    \/ \E v \in {1} : VmSpace_new(v) /\ UNCHANGED <<trace, netVars>>
    \/ \E t \in VmThreads, v \in {1}, mutable \in BOOLEAN,
          start \in PageBounds, end \in PageBounds :
            cursor_call(t, v, mutable, start, end) /\ UNCHANGED <<trace, netVars>>
    \/ \E t \in VmThreads : cursor_drop(t) /\ UNCHANGED <<trace, netVars>>
    \/ \E t \in VmThreads : frame_alloc(t) /\ UNCHANGED <<trace, netVars>>
    \/ \E t \in VmThreads : frame_drop(t) /\ UNCHANGED <<trace, netVars>>
    \/ \E v \in {1}, va \in Slots, prop \in Props :
            map_untracked(v, va, prop) /\ UNCHANGED <<trace, netVars>>
    \/ \E t \in VmThreads : query(t) /\ UNCHANGED <<trace, netVars>>
    \/ \E t \in VmThreads : next(t) /\ UNCHANGED <<trace, netVars>>
    \/ \E t \in VmThreads, prop \in Props : map(t, prop) /\ UNCHANGED <<trace, netVars>>
    \/ \E t \in VmThreads, len \in Lens : unmap(t, len) /\ UNCHANGED <<trace, netVars>>
    \/ \E t \in VmThreads, v \in {1} : clear(t, v) /\ UNCHANGED <<trace, netVars>>

SpecUntracked == InitVm /\ [][NextUntracked]_vars

\* The lengths the two threads pass to unmap() and protect().
PairLens == {PAGE_SIZE}
\* The property the two threads pass to map().
PairProps == {{"R", "W"}}

\* One thread maps frames and then iterates over ranges with a Cursor; the
\* trace holds the calls of the Cursor that is live.
NextIter ==
    \/ \E v \in {1} : VmSpace_new(v) /\ UNCHANGED <<trace, netVars>>
    \/ \E t \in {1}, v \in {1}, mutable \in BOOLEAN,
          start \in PageBounds, end \in PageBounds :
            cursor_call(t, v, mutable, start, end) /\ trace' = <<>>
            /\ UNCHANGED netVars
    \/ \E t \in {1} : cursor_drop(t) /\ UNCHANGED <<trace, netVars>>
    \/ \E t \in {1} : frame_alloc(t) /\ UNCHANGED <<trace, netVars>>
    \/ \E t \in {1} : frame_drop(t) /\ UNCHANGED <<trace, netVars>>
    \/ \E t \in {1}, prop \in Props : map(t, prop) /\ UNCHANGED <<trace, netVars>>
    \/ \E t \in {1} : query(t) /\ ObservedIter("query", t)
    \/ \E t \in {1} : next(t) /\ ObservedIter("next", t)

SpecIter == InitVm /\ [][NextIter]_vars

\* Two threads, each with a CursorMut over its own range of one VmSpace.
NextPair ==
    \/ \E v \in {1} : VmSpace_new(v) /\ UNCHANGED <<trace, netVars>>
    \/ \E t \in {1, 2}, v \in {1} :
            cursor_call(t, v, TRUE, RangeOf(t).start, RangeOf(t).end)
            /\ UNCHANGED <<trace, netVars>>
    \/ \E t \in {1, 2} : cursor_drop(t) /\ UNCHANGED <<trace, netVars>>
    \/ \E t \in {1, 2} : frame_alloc(t) /\ UNCHANGED <<trace, netVars>>
    \/ \E t \in {1, 2}, prop \in PairProps :
            map(t, prop) /\ ObservedPair("map", t, PAGE_SIZE, prop)
    \/ \E t \in {1, 2}, len \in PairLens :
            unmap(t, len) /\ ObservedPair("unmap", t, len, {})
    \/ \E t \in {1, 2}, len \in PairLens, op \in ProtectOps :
            protect(t, len, op) /\ ObservedPair("protect", t, len, {op})

SpecPair == InitVm /\ [][NextPair]_vars

\* Thread 1 forks VmSpace 1 into VmSpace 2, step by step, while thread 2
\* works on VmSpace 1 through cursors.
NextForkSteps ==
    \/ \E v \in {1} : VmSpace_new(v) /\ UNCHANGED <<trace, netVars>>
    \/ \E v \in {2} : VmSpace_drop(v) /\ UNCHANGED <<trace, netVars>>
    \/ \E t \in {1}, v \in {1} : fork_protect_pass(t, v) /\ UNCHANGED <<trace, netVars>>
    \/ \E t \in {1}, child \in {2} : fork_clone(t, child) /\ UNCHANGED <<trace, netVars>>
    \/ \E t \in {2}, v \in {1}, mutable \in BOOLEAN,
          start \in PageBounds, end \in PageBounds :
            cursor_call(t, v, mutable, start, end) /\ UNCHANGED <<trace, netVars>>
    \/ \E t \in {2} : cursor_acquire(t) /\ UNCHANGED <<trace, netVars>>
    \/ \E t \in {2} : cursor_drop(t) /\ UNCHANGED <<trace, netVars>>
    \/ \E t \in {2} : frame_alloc(t) /\ UNCHANGED <<trace, netVars>>
    \/ \E t \in {2}, prop \in Props : map(t, prop) /\ UNCHANGED <<trace, netVars>>
    \/ \E t \in {2}, len \in PairLens : unmap(t, len) /\ UNCHANGED <<trace, netVars>>
    \/ \E t \in {2}, len \in PairLens, op \in ProtectOps :
            protect(t, len, op) /\ UNCHANGED <<trace, netVars>>

SpecForkSteps == InitVm /\ [][NextForkSteps]_vars

\* The calls into one listening socket: connecting clients push, the
\* accepting threads pop and poll, and listen() sets the limit.
InitListen ==
    /\ InitAllocVars /\ InitActivateVars /\ InitVmVars
    /\ incoming_conns = <<>>
    /\ incoming_conns_lock = NoThread
    /\ pollee = {}
    /\ backlog \in Backlogs
    /\ pairs = 0
    /\ InitDatagramVars
    /\ call = [t \in NetThreads |-> CallIdle]

NextListen ==
    \/ \E t \in NetThreads :
            /\ pairs < MaxPairs
            /\ incoming_conns_lock_acquire(t, "push_incoming", {})
    \/ \E t \in NetThreads : incoming_conns_lock_acquire(t, "pop_incoming", {})
    \/ \E t \in NetThreads, mask \in Masks :
            incoming_conns_lock_acquire(t, "poll", mask)
    \/ \E t \in NetThreads : push_incoming(t)
    \/ \E t \in NetThreads : push_incoming_add_events(t)
    \/ \E t \in NetThreads : pop_incoming(t)
    \/ \E t \in NetThreads : pop_incoming_del_events(t)
    \/ \E t \in NetThreads : poll(t)
    \/ \E b \in Backlogs : set_backlog(b)

SpecListen == InitListen /\ [][NextListen]_vars

\* The calls into one datagram socket from several threads.
InitDatagram ==
    /\ InitAllocVars /\ InitActivateVars /\ InitVmVars
    /\ incoming_conns = <<>>
    /\ incoming_conns_lock = NoThread
    /\ pollee = {}
    /\ backlog = 0
    /\ pairs = 0
    /\ InitDatagramVars
    /\ call = [t \in NetThreads |-> SockIdle]

NextDatagram ==
    \/ \E t \in NetThreads, socket_addr \in BindEndpoints \cup {NotIp},
          can_reuse \in BOOLEAN : bind_try_into(t, socket_addr, can_reuse)
    \/ \E t \in NetThreads, ok \in BOOLEAN : bind(t, ok)
    \/ \E t \in NetThreads, socket_addr \in RemoteEndpoints \cup {NotIp} :
          connect_try_into(t, socket_addr)
    \/ \E t \in NetThreads : connect(t)
    \/ \E t \in NetThreads,
          addr \in {None} \cup {Some(a) : a \in RemoteEndpoints \cup {NotIp}} :
          sendmsg(t, addr)
    \/ \E t \in NetThreads : try_bind_ephemeral_fast(t)
    \/ \E t \in NetThreads, endpoint \in EphemeralEndpoints, ok \in BOOLEAN :
          try_bind_ephemeral(t, endpoint, ok)
    \/ \E t \in NetThreads : inner_write(t)
    \/ \E t \in NetThreads, sent \in BOOLEAN : try_send(t, sent)

SpecDatagram == InitDatagram /\ [][NextDatagram]_vars

(***************************************************************************)
(* Claims about the frame allocator, checked under SpecAlloc.              *)
(***************************************************************************)

\* C7: no physical frame is held by two live handles at the same time: a
\* frame that has a live handle is not in the allocator's free pool, so it is
\* not handed out again before its handle was dropped and it was deallocated.
C7_NoFrameHeldTwice ==
    \A f \in Frames :
        /\ handles[f] <= 1
        /\ handles[f] = 1 => f \notin FreePool

\* C7 witness: after a dealloc, an allocation has handed out a frame while
\* another frame is held by a live handle and a third one is free.
C7_Witness ==
    /\ ret.op \in {"alloc", "alloc_zero", "alloc_continuous"}
    /\ ret.some
    /\ Cardinality({f \in Frames : handles[f] = 1}) >= 2
    /\ FreePool # {}

\* C8: alloc_continuous(n) on an installed allocator returns either None,
\* with the free lists and the live handles as they were, or exactly n frames
\* at base, base + PAGE_SIZE, ..., all of them free before the call, taken
\* out of the free pool by the call and each given one handle.
C8_AllocContinuousAllOrNothing ==
    [][\A n \in 0 .. MaxCount :
         (alloc_continuous(n) /\ FRAME_ALLOCATOR.is_completed) =>
            /\ ret'.op = "alloc_continuous"
            /\ ret'.arg = n
            /\ \/ /\ ~ret'.some
                  /\ ret'.frames = <<>>
                  /\ FRAME_ALLOCATOR' = FRAME_ALLOCATOR
                  /\ handles' = handles
               \/ /\ ret'.some
                  /\ Len(ret'.frames) = n
                  /\ \A i \in 1 .. n :
                        /\ ret'.frames[i] % PAGE_SIZE = 0
                        /\ ret'.frames[i] = ret'.frames[1] + (i - 1) * PAGE_SIZE
                        /\ (ret'.frames[i] \div PAGE_SIZE) \in FreePool
                        /\ (ret'.frames[i] \div PAGE_SIZE) \notin FreePool'
                  /\ \A i \in 1 .. (n - 1) : ret'.frames[i] < ret'.frames[i + 1]
                  /\ \A f \in Frames :
                        handles'[f] = handles[f] +
                            (IF \E i \in 1 .. n : ret'.frames[i] = f * PAGE_SIZE
                             THEN 1 ELSE 0)
      ]_vars

\* C8 witness: an alloc_continuous call has returned several frames.
C8_Witness ==
    /\ ret.op = "alloc_continuous"
    /\ ret.some
    /\ Len(ret.frames) >= 2

\* C9: a second init(), called when the allocator is already installed,
\* aborts the kernel instead of returning normally.
C9_SecondInitAborts ==
    [][\A regions \in RegionLists :
         (init(regions) /\ FRAME_ALLOCATOR.is_completed) => panicked' # NoPanic
      ]_vars

\* C10: alloc, alloc_continuous, alloc_zero and dealloc called while the
\* allocator is not installed abort, return nothing and change no state.
C10_UseBeforeInitAborts ==
    [][(/\ ~FRAME_ALLOCATOR.is_completed
        /\ \/ alloc
           \/ alloc_zero
           \/ \E n \in 0 .. MaxCount : alloc_continuous(n)
           \/ \E index \in Frames : dealloc(index))
       => /\ panicked' = UnwrapNone
          /\ UNCHANGED <<FRAME_ALLOCATOR, handles, zeroing, zeroed, ret>>
      ]_vars

\* C10 witness: the kernel has aborted on the unwrap of the empty cell.
C10_Witness ==
    /\ panicked = UnwrapNone
    /\ ~FRAME_ALLOCATOR.is_completed
    /\ ret.op = "boot"

(***************************************************************************)
(* Claims about VmSpace::activate, checked under SpecActivate.             *)
(***************************************************************************)

\* C2: whenever no activate() is in progress on CPU c, c is in the
\* activation set of at most one VmSpace, and c is in the set of V exactly
\* when V is the last-activated record of c.
C2_ActivationSetMatchesRecord ==
    \A c \in CPUs :
        pc[c] = "idle" =>
            /\ Cardinality({v \in VmSpaces : c \in activated_cpus[v]}) <= 1
            /\ \A v \in VmSpaces :
                   c \in activated_cpus[v] <=> LAST_ACTIVATED_VM_SPACE[c] = v

\* C2 witness: with no call in progress anywhere, one CPU has switched from
\* one VmSpace to another and a VmSpace is active on two CPUs.
C2_Witness ==
    /\ \A c \in CPUs : pc[c] = "idle"
    /\ \E c \in CPUs : last[c] \notin {NULL, LAST_ACTIVATED_VM_SPACE[c]}
    /\ \E v \in VmSpaces : Cardinality(activated_cpus[v]) >= 2

\* C3: an activate() of V on a CPU c that is not in V's activation set adds
\* c to the set and programs c's root register with V's table; it returns
\* with V as the record of c and c removed from the set of the VmSpace that
\* was the record before. A CPU leaves an activation set only in the step
\* of an activate() of another VmSpace on that CPU that evicts the record.
C3_ActivateSwitches ==
    [][/\ \A c \in CPUs, v \in VmSpaces :
            (activate_lock_self(c, v) /\ c \notin activated_cpus[v]) =>
                /\ c \in activated_cpus'[v]
                /\ current_page_table'[c] = v
                /\ programmed'[c]
                /\ IF LAST_ACTIVATED_VM_SPACE[c] = NULL
                   THEN pc'[c] = "idle" /\ LAST_ACTIVATED_VM_SPACE'[c] = v
                   ELSE /\ pc'[c] = "lock_last"
                        /\ self'[c] = v
                        /\ last'[c] = LAST_ACTIVATED_VM_SPACE[c]
       /\ \A c \in CPUs :
            activate_lock_last(c) =>
                /\ pc'[c] = "idle"
                /\ LAST_ACTIVATED_VM_SPACE[c] # self[c]
                /\ c \notin activated_cpus'[LAST_ACTIVATED_VM_SPACE[c]]
                /\ LAST_ACTIVATED_VM_SPACE'[c] = self[c]
                /\ c \in activated_cpus'[self[c]]
                /\ current_page_table'[c] = self[c]
       /\ \A c \in CPUs, w \in VmSpaces :
            (c \in activated_cpus[w] /\ c \notin activated_cpus'[w]) =>
                /\ activate_lock_last(c)
                /\ LAST_ACTIVATED_VM_SPACE[c] = w
                /\ self[c] # w
      ]_vars

\* C3 witness: an activate() that evicted another VmSpace has returned.
C3_Witness ==
    \E c \in CPUs :
        /\ pc[c] = "idle"
        /\ programmed[c]
        /\ last[c] # NULL
        /\ last[c] # self[c]
        /\ LAST_ACTIVATED_VM_SPACE[c] = self[c]
        /\ c \notin activated_cpus[last[c]]

\* C4: an activate() of a VmSpace that is already active on the CPU changes
\* no activation set, not the record of the CPU, and does not write the root
\* register.
C4_ActivateIdempotent ==
    [][\A c \in CPUs, v \in VmSpaces :
         (activate_lock_self(c, v) /\ c \in activated_cpus[v]) =>
            /\ activated_cpus' = activated_cpus
            /\ LAST_ACTIVATED_VM_SPACE' = LAST_ACTIVATED_VM_SPACE
            /\ current_page_table' = current_page_table
            /\ ~programmed'[c]
            /\ strong' = strong
            /\ pc'[c] = "idle"
            /\ activated_cpus_lock' = activated_cpus_lock
      ]_vars

\* C4 witness: an activate() of the VmSpace that is the only one active on the
\* CPU, and active only there, has returned without writing the register.
C4_Witness ==
    \E c \in CPUs :
        /\ pc[c] = "idle"
        /\ self[c] # NULL
        /\ ~programmed[c]
        /\ LAST_ACTIVATED_VM_SPACE[c] = self[c]
        /\ activated_cpus[self[c]] = {c}

(***************************************************************************)
(* Claims about cursors, checked under SpecCursor.                         *)
(***************************************************************************)

\* C1: no two live cursors of one VmSpace, of either kind, cover overlapping
\* ranges; a cursor()/cursor_mut() call over a well-formed range returns at
\* once when no live cursor of the VmSpace overlaps the range (so cursors
\* over disjoint ranges do not wait for each other) and waits when one does;
\* a waiting call returns only in a state where no live cursor overlaps its
\* range, and it can return in every such state.
C1_CursorsExclusive ==
    /\ [](\A t, u \in Threads :
            (/\ t # u
             /\ th[t].pc = "live"
             /\ th[u].pc = "live"
             /\ th[t].vm = th[u].vm)
            => (th[t].end <= th[u].start \/ th[u].end <= th[t].start))
    /\ [](\A t \in Threads :
            (th[t].pc = "blocked" /\ panicked = NoPanic) =>
                (ENABLED cursor_acquire(t) <=>
                    ~\E u \in Threads \ {t} :
                        /\ th[u].pc = "live"
                        /\ th[u].vm = th[t].vm
                        /\ th[u].start < th[t].end
                        /\ th[t].start < th[u].end))
    /\ [][/\ \A t \in Threads :
                (th[t].pc = "idle" /\ th'[t] # th[t]) =>
                    \A v \in VmSpaces, mutable \in BOOLEAN,
                       start \in CursorBounds, end \in CursorBounds :
                        (/\ RangeOk(start, end)
                         /\ cursor_call(t, v, mutable, start, end)) =>
                            IF \E u \in Threads \ {t} :
                                  /\ th[u].pc = "live"
                                  /\ th[u].vm = v
                                  /\ th[u].start < end
                                  /\ start < th[u].end
                            THEN th'[t].pc = "blocked"
                            ELSE /\ th'[t].pc = "live"
                                 /\ th'[t].vm = v
                                 /\ th'[t].start = start
                                 /\ th'[t].end = end
                                 /\ ~th'[t].waited
          /\ \A t \in Threads :
                (th[t].pc = "blocked" /\ th'[t].pc = "live") =>
                    ~\E u \in Threads \ {t} :
                        /\ th[u].pc = "live"
                        /\ th[u].vm = th[t].vm
                        /\ th[u].start < th[t].end
                        /\ th[t].start < th[u].end
         ]_vars

\* C1 witness: a cursor over [0, 0x1000) that had to wait for another cursor
\* over the same range is live together with a cursor of the same VmSpace
\* over [0x1000, 0x2000) that was returned without waiting.
C1_Witness ==
    \E t, u \in Threads :
        /\ t # u
        /\ th[t].pc = "live" /\ th[u].pc = "live"
        /\ th[t].vm = th[u].vm
        /\ th[t].start = 0 /\ th[t].end = 4096
        /\ th[u].start = 4096 /\ th[u].end = 8192
        /\ th[t].waited
        /\ ~th[u].waited

(***************************************************************************)
(* Claims about fork and frame ownership, checked under SpecVm.            *)
(***************************************************************************)

\* C5: in the state fork_copy_on_write() returns in, for every address that
\* was mapped in the parent, query() reports in the parent and in the child
\* a Mapped item with the frame the parent had there and a property without
\* W; a map() through a cursor of one VmSpace changes what query() reports
\* for no address of any other VmSpace.
C5_ForkSharesWriteProtected ==
    [][/\ \A t \in Threads, v \in VmSpaces, child \in VmSpaces :
            fork_copy_on_write(t, v, child) =>
                \A va \in Slots :
                    pt[v][va].mapped =>
                        /\ query_item(v, va)'.mapped
                        /\ query_item(child, va)'.mapped
                        /\ query_item(v, va)'.frame = pt[v][va].frame
                        /\ query_item(child, va)'.frame = pt[v][va].frame
                        /\ "W" \notin query_item(v, va)'.prop
                        /\ "W" \notin query_item(child, va)'.prop
       /\ \A t \in Threads, prop \in Props :
            map(t, prop) =>
                \A w \in VmSpaces \ {th[t].vm} :
                    \A va \in Slots : query_item(w, va)' = query_item(w, va)
      ]_vars

\* C5 witness: after a fork, the thread has mapped a frame writable at an
\* address of one of the parent and the child, and the other of the two
\* still maps there, write-protected, the frame it shared.
C5_Witness ==
    \E t \in Threads, w \in VmSpaces :
        /\ th[t].pc = "live"
        /\ th[t].res = "mapped"
        /\ th[t].child # NULL
        /\ w # th[t].vm
        /\ th[t].child \in {w, th[t].vm}
        /\ w \in owned
        /\ LET va == th[t].va - PAGE_SIZE
           IN /\ pt[w][va].mapped
              /\ pt[th[t].vm][va].mapped
              /\ pt[w][va].frame # pt[th[t].vm][va].frame
              /\ "W" \notin pt[w][va].prop
              /\ "W" \in pt[th[t].vm][va].prop
              /\ handles[pt[w][va].frame] = 1

\* C6: the handles of a frame are those of its mappings in the VmSpaces and
\* those the callers hold; a frame with an owner is not in the allocator's
\* free pool, whatever unmap(), clear() or the drop of a VmSpace released;
\* and a frame enters the free pool exactly in the step in which its last
\* owner releases it (the free pool changes only with the allocator).
C6_SharedFrameFreedByLastOwner ==
    /\ [](LET free == FreePool
              Owners(f) ==
                  Cardinality({x \in VmSpaces \X Slots :
                                  pt[x[1]][x[2]].mapped /\ pt[x[1]][x[2]].frame = f})
                  + Cardinality({t \in Threads : th[t].frame = f})
          IN \A f \in Frames :
                /\ handles[f] = Owners(f)
                /\ Owners(f) > 0 => f \notin free)
    /\ [][LET before == FreePool
              after  == FreePool'
              Owners(tables, threads, f) ==
                  Cardinality({x \in VmSpaces \X Slots :
                                  tables[x[1]][x[2]].mapped
                                  /\ tables[x[1]][x[2]].frame = f})
                  + Cardinality({t \in Threads : threads[t].frame = f})
          IN \A f \in Frames :
                (/\ FRAME_ALLOCATOR' # FRAME_ALLOCATOR
                 /\ f \notin before
                 /\ f \in after) <=>
                    (Owners(pt, th, f) > 0 /\ Owners(pt', th', f) = 0)
         ]_vars

\* C6 witness: an unmap() in a forked child has taken out the mapping of a
\* frame that another VmSpace still maps; the frame is not in the free pool.
C6_Witness ==
    \E t \in Threads, w \in VmSpaces, f \in Frames :
        /\ th[t].pc = "live"
        /\ th[t].res = "unmapped"
        /\ th[t].vm = th[t].child
        /\ f \in th[t].taken
        /\ w # th[t].vm
        /\ \E va \in Slots : pt[w][va].mapped /\ pt[w][va].frame = f
        /\ \A va \in Slots : pt[th[t].vm][va].frame # f
        /\ handles[f] = 1
        /\ f \notin FreePool

(***************************************************************************)
(* Claims about readers and writers, checked under SpecAccess.             *)
(***************************************************************************)

\* C11: reader(addr, len) and writer(addr, len) return AccessDenied and no
\* accessor when the table of the VmSpace is not the one in the root
\* register of the calling CPU and when addr + len overflows or is above
\* MAX_USERSPACE_VADDR; in every other case, addr + len equal to the ceiling
\* included, they return an accessor over the range; neither changes anything
\* but the caller's result.
C11_AccessorChecks ==
    [][\A t \in Threads : th'[t] # th[t] =>
        \A cpu \in CPUs, v \in VmSpaces, vaddr \in UserAddrs, len \in UserLens :
          \A kind \in {"VmReader", "VmWriter"} :
            ((IF kind = "VmReader" THEN reader(t, cpu, v, vaddr, len)
                                   ELSE writer(t, cpu, v, vaddr, len))) =>
                /\ IF \/ current_page_table[cpu] # v
                      \/ vaddr + len > USIZE_MAX
                      \/ vaddr + len > MAX_USERSPACE_VADDR
                   THEN th'[t].res = AccessDenied /\ th'[t].accessor = None
                   ELSE th'[t].res = "Ok"
                        /\ th'[t].accessor = Some(<<kind, vaddr, len>>)
                /\ UNCHANGED <<pt, page_fault_handler, activateVars, allocVars>>
                /\ \A u \in Threads \ {t} : th'[u] = th[u]
                /\ [th'[t] EXCEPT !.res = "", !.accessor = None]
                       = [th[t] EXCEPT !.res = "", !.accessor = None]
      ]_vars

\* C11 witness: a writer over a range that ends at the ceiling was returned
\* for the VmSpace active on the calling CPU.
C11_Witness ==
    \E t \in Threads, cpu \in CPUs :
        /\ th[t].res = "Ok"
        /\ th[t].accessor # None
        /\ Unwrap(th[t].accessor)[1] = "VmWriter"
        /\ Unwrap(th[t].accessor)[2] + Unwrap(th[t].accessor)[3] = MAX_USERSPACE_VADDR
        /\ Unwrap(th[t].accessor)[3] > 0
        /\ current_page_table[cpu] # NULL
        /\ pc[cpu] = "idle"

(***************************************************************************)
(* Claims about map and unmap, checked under SpecTrip.                     *)
(***************************************************************************)
\* The latest recorded call.
LastCall == trace[Len(trace)]

\* C12: when no mapping exists at address a, map(frame, prop) at a followed
\* by query() at a reports Mapped with va = a, the frame that was passed and
\* the property that was passed plus ACCESSED.
C12_MapThenQuery ==
    (trace # <<>> /\ LastCall.op = "map" /\ ~LastCall.before.mapped) =>
        query_item(LastCall.v, LastCall.va) =
            [mapped |-> TRUE, va |-> LastCall.va, frame |-> LastCall.frame,
             prop |-> LastCall.prop \cup {"ACCESSED"}]

\* C12 witness: a thread holds a cursor at an address where map() has just
\* installed a frame in an empty slot, and would query it.
C12_Witness ==
    /\ trace # <<>>
    /\ LastCall.op = "map"
    /\ ~LastCall.before.mapped
    /\ ~("ACCESSED" \in LastCall.prop)
    /\ \E t \in VmThreads :
          /\ th[t].pc = "live"
          /\ th[t].vm = LastCall.v
          /\ th[t].va = LastCall.va
          /\ th[t].res = "Ok"

\* C13: after unmap(len) over [a, a + len) query() reports NotMapped at every
\* slot of the range, and a second unmap over the same range returns
\* normally, changes no mapping and releases no frame.
C13_UnmapIdempotent ==
    /\ (trace # <<>> /\ LastCall.op = "unmap" /\ LastCall.panicked = NoPanic) =>
          \A va \in Slots :
              (LastCall.va <= va /\ va < LastCall.va + LastCall.len) =>
                  ~query_item(LastCall.v, va).mapped
    /\ \A i \in 1 .. (Len(trace) - 1) :
          (/\ trace[i].op = "unmap" /\ trace[i + 1].op = "unmap"
           /\ trace[i].panicked = NoPanic
           /\ trace[i + 1].v = trace[i].v
           /\ trace[i + 1].va = trace[i].va
           /\ trace[i + 1].len = trace[i].len) =>
              /\ trace[i + 1].panicked = NoPanic
              /\ ~trace[i + 1].changed
              /\ trace[i + 1].log = <<>>

\* C13 witness: an unmap that took the mapping at its position out of the
\* table was followed by a second unmap over the same range.
C13_Witness ==
    \E i \in 1 .. (Len(trace) - 1) :
        /\ trace[i].op = "unmap" /\ trace[i + 1].op = "unmap"
        /\ trace[i].before.mapped
        /\ trace[i].len > 0
        /\ trace[i + 1].v = trace[i].v
        /\ trace[i + 1].va = trace[i].va
        /\ trace[i + 1].len = trace[i].len
        /\ trace[i + 1].panicked = NoPanic

\* C14: after map(f1, p1) at a, unmap of the slot and map(f2, p2) at a,
\* query() at a reports f2 with p2 plus ACCESSED and nothing else: the
\* unmap released the handle the VmSpace held of f1 (when f2 is another
\* frame, no slot refers to f1, and no handle of f1 is left unless a thread
\* has allocated the frame again), the second map()
\* found the slot empty, and no bit of p1 is left in the property.
C14_RoundTrip ==
    \A i \in 1 .. (Len(trace) - 2) :
        (/\ trace[i].op = "map" /\ trace[i + 1].op = "unmap"
         /\ trace[i + 2].op = "map"
         /\ trace[i + 1].v = trace[i].v /\ trace[i + 2].v = trace[i].v
         /\ trace[i + 1].va = trace[i].va /\ trace[i + 2].va = trace[i].va
         /\ trace[i + 1].len = PAGE_SIZE
         /\ i + 2 = Len(trace)) =>
            /\ query_item(trace[i].v, trace[i].va) =
                   [mapped |-> TRUE, va |-> trace[i].va,
                    frame |-> trace[i + 2].frame,
                    prop |-> trace[i + 2].prop \cup {"ACCESSED"}]
            /\ trace[i + 1].log = <<tlb_flush_addr(trace[i].va),
                                    drop_page(trace[i].va, trace[i].frame)>>
            /\ trace[i].frame # trace[i + 2].frame =>
                   /\ \A va \in Slots : pt[trace[i].v][va].frame # trace[i].frame
                   /\ (\A t \in Threads : th[t].frame # trace[i].frame) =>
                          handles[trace[i].frame] = 0
            /\ ~trace[i + 2].before.mapped
            /\ trace[i + 2].before.frame = NoFrame
            /\ trace[i + 2].before.prop = {}

\* C14 witness: a frame mapped writable was unmapped and the slot mapped
\* again read-only.
C14_Witness ==
    /\ Len(trace) = 3
    /\ trace[1].op = "map" /\ trace[2].op = "unmap" /\ trace[3].op = "map"
    /\ trace[2].v = trace[1].v /\ trace[3].v = trace[1].v
    /\ trace[2].va = trace[1].va /\ trace[3].va = trace[1].va
    /\ trace[2].len = PAGE_SIZE
    /\ "W" \in trace[1].prop
    /\ ~("W" \in trace[3].prop)
    /\ trace[1].frame # trace[3].frame
    /\ ~query_item(trace[1].v, trace[1].va).prop = {}

(***************************************************************************)
(* Claims about the page-fault handler, checked under SpecFault.           *)
(***************************************************************************)
\* C15: register_page_fault_handler() installs its function only when none
\* is installed; every later call, in whatever order callers race, leaves
\* the cell as it is; and once handle_page_fault() has found a function in
\* the cell, every later handle_page_fault() of the VmSpace finds the same.
C15_HandlerRegisteredOnce ==
    /\ \A i \in 1 .. Len(trace) :
          trace[i].op = "register_page_fault_handler" =>
              trace[i].after = IF trace[i].handler = NULL THEN trace[i].func
                               ELSE trace[i].handler
    /\ \A i \in 1 .. Len(trace), j \in 1 .. Len(trace) :
          (/\ i < j
           /\ trace[i].op = "handle_page_fault"
           /\ trace[j].op = "handle_page_fault"
           /\ trace[i].v = trace[j].v
           /\ trace[i].handler # NULL) =>
              trace[j].handler = trace[i].handler
    /\ \A i \in 1 .. Len(trace) :
          (trace[i].op = "handle_page_fault" /\ trace[i].handler # NULL) =>
              page_fault_handler[trace[i].v] = trace[i].handler

\* C15 witness: a fault found a function, another function was registered
\* afterwards, and a later fault was handled.
C15_Witness ==
    /\ Len(trace) = 4
    /\ trace[1].op = "register_page_fault_handler"
    /\ trace[2].op = "handle_page_fault" /\ trace[2].handler # NULL
    /\ trace[3].op = "register_page_fault_handler"
    /\ trace[3].v = trace[2].v /\ trace[3].func # trace[2].handler
    /\ trace[4].op = "handle_page_fault" /\ trace[4].v = trace[2].v

\* C16: handle_page_fault() returns Err(()) and calls nothing when no
\* function is registered; with a function registered it calls that function
\* exactly once, with this VmSpace and the info it was given, and returns
\* what the function returned.
C16_FaultDispatch ==
    \A i \in 1 .. Len(trace) :
        trace[i].op = "handle_page_fault" =>
            IF trace[i].handler = NULL
            THEN trace[i].res = "Err(())" /\ trace[i].log = <<>>
            ELSE /\ trace[i].log =
                        <<handler_call(trace[i].handler, trace[i].v, trace[i].info)>>
                 /\ trace[i].res =
                        Verdict(trace[i].handler, trace[i].v, trace[i].info)

\* C16 witness: one fault was reported unhandled for want of a function, one
\* was handled by the registered function and one was refused by it.
C16_Witness ==
    \E i, j, k \in 1 .. Len(trace) :
        /\ trace[i].op = "handle_page_fault" /\ trace[i].handler = NULL
        /\ trace[j].op = "handle_page_fault" /\ trace[j].handler # NULL
        /\ trace[j].res = "Ok(())"
        /\ trace[k].op = "handle_page_fault" /\ trace[k].handler # NULL
        /\ trace[k].res = "Err(())"

(***************************************************************************)
(* Claims about the VmSpace a fork creates, checked under SpecFork.        *)
(***************************************************************************)
\* C17: the VmSpace fork_copy_on_write() returns has an empty activation set
\* and the handler the parent had when it was forked, in a cell of its own:
\* a later registration changes the cell of one VmSpace only. The parent's
\* activation set and handler are as before the fork.
C17_ForkedVmSpace ==
    /\ [][\A t \in VmThreads, v \in VmSpaces, child \in VmSpaces :
            fork_copy_on_write(t, v, child) =>
                /\ activated_cpus'[child] = {}
                /\ page_fault_handler'[child] = page_fault_handler[v]
                /\ activated_cpus'[v] = activated_cpus[v]
                /\ page_fault_handler'[v] = page_fault_handler[v]
         ]_vars
    /\ [][\A v \in VmSpaces, func \in Handlers :
            register_page_fault_handler(v, func) =>
                \A w \in VmSpaces \ {v} :
                    page_fault_handler'[w] = page_fault_handler[w]
         ]_vars

\* C17 witness: a VmSpace that is activated on a CPU and has a handler has
\* been forked.
C17_Witness ==
    \E t \in VmThreads, v \in VmSpaces :
        /\ th[t].res = "forked"
        /\ th[t].child \in owned
        /\ v # th[t].child
        /\ v \in owned
        /\ activated_cpus[v] # {}
        /\ activated_cpus[th[t].child] = {}
        /\ page_fault_handler[v] # NULL
        /\ page_fault_handler[th[t].child] = page_fault_handler[v]

(***************************************************************************)
(* Claims about clear(), checked under SpecVm.                             *)
(***************************************************************************)
\* The number of entries of a log that are flushes.
Flushes(log) ==
    Cardinality({i \in 1 .. Len(log) :
                    log[i][1] \in {"tlb_flush_addr", "tlb_flush_addr_range",
                                   "tlb_flush_all_excluding_global"}})

\* C18: after clear() query() reports NotMapped at every slot, one handle has
\* been released for every mapping there was, and exactly one flush of the
\* whole TLB has been issued, as the last step, however many mappings there
\* were.
C18_ClearAll ==
    [][\A t \in VmThreads :
          (th[t].pc = "idle" /\ th'[t].res = "cleared" /\ th'[t] # th[t]) =>
            \A v \in VmSpaces :
              clear(t, v) =>
                LET log == th'[t].log
                    mapped == {va \in Slots : pt[v][va].mapped}
                IN /\ \A va \in Slots : ~query_item(v, va)'.mapped
                   /\ \A f \in Frames :
                        Cardinality({i \in 1 .. Len(log) :
                                        log[i][1] = "drop" /\ log[i][3] = f})
                          = Cardinality({va \in mapped : pt[v][va].frame = f})
                   /\ \A f \in Frames :
                        handles'[f] =
                            handles[f] - Cardinality({va \in mapped : pt[v][va].frame = f})
                   /\ Len(log) = Cardinality(mapped) + 1
                   /\ log[Len(log)] = tlb_flush_all_excluding_global
                   /\ Flushes(log) = 1
      ]_vars

\* C18 witness: clear() has returned after taking two mappings out of a
\* VmSpace.
C18_Witness ==
    \E t \in VmThreads :
        /\ th[t].res = "cleared"
        /\ Len(th[t].log) = 3
        /\ th[t].log[3] = tlb_flush_all_excluding_global

(***************************************************************************)
(* Claims about the TLB policy of unmap and protect, checked under SpecTlb.*)
(***************************************************************************)
\* The entries of a log with the given name.
Entries(log, name) == {i \in 1 .. Len(log) : log[i][1] = name}

C20_UnalignedLenAborts ==
    \A i \in 1 .. Len(trace) :
        (trace[i].op \in {"unmap", "protect"} /\ trace[i].len % PAGE_SIZE # 0) =>
            /\ trace[i].panicked = AssertFailed
            /\ ~trace[i].changed
            /\ trace[i].log = <<>>
            /\ trace[i].va_after = trace[i].va
            /\ i = Len(trace)
            /\ panicked = AssertFailed

\* C20 witness: protect() was called with len = 1 at a mapped slot.
C20_Witness ==
    /\ trace # <<>>
    /\ LastCall.op = "protect"
    /\ LastCall.len = 1
    /\ LastCall.before.mapped
    /\ panicked = AssertFailed

(***************************************************************************)
(* Claims about untracked memory, checked under SpecUntracked.             *)
(***************************************************************************)
\* C21: query(), next(), unmap() and clear() abort when the slot they reach
\* holds an untracked mapping: the kernel panics, and the caller gets no
\* VmItem, no frame handle and no result.
C21_UntrackedIsFatal ==
    [][\A t \in VmThreads :
          /\ (query(t) /\ UntrackedAt(th[t].vm, th[t].va)) =>
                /\ panicked' # NoPanic
                /\ th'[t] = th[t]
                /\ handles' = handles
          /\ (next(t) /\ th[t].va < th[t].end
                /\ UntrackedAt(th[t].vm, th[t].va)) =>
                /\ panicked' # NoPanic
                /\ th'[t] = th[t]
                /\ handles' = handles
          /\ \A len \in Lens :
                (/\ unmap(t, len)
                 /\ len % PAGE_SIZE = 0
                 /\ \E va \in Slots : /\ th[t].va <= va /\ va < th[t].va + len
                                      /\ UntrackedAt(th[t].vm, va)) =>
                    /\ panicked' # NoPanic
                    /\ th'[t].res = th[t].res
                    /\ th'[t].frame = th[t].frame
          /\ \A v \in VmSpaces :
                (clear(t, v) /\ \E va \in Slots : UntrackedAt(v, va)) =>
                    /\ panicked' # NoPanic
                    /\ th'[t].res = th[t].res
                    /\ th'[t].frame = th[t].frame
      ]_vars

\* C21 witness: unmap() took a tracked mapping out of the table, dropped its
\* page and then reached an untracked mapping.
C21_Witness ==
    \E t \in VmThreads :
        /\ panicked = PanicUntracked
        /\ th[t].pc = "live"
        /\ th[t].taken # {}
        /\ th[t].va = 2 * PAGE_SIZE

(***************************************************************************)
(* Claims about iteration, checked under SpecIter.                         *)
(***************************************************************************)
\* The recorded next() calls that returned an item.
Yields == {i \in 1 .. Len(trace) : trace[i].op = "next" /\ trace[i].item # None}

\* C22: iterating a Cursor over [s, e) ends: next() returns the item of the
\* slot the cursor is at and moves the cursor past exactly that slot; the
\* addresses of the items increase strictly and lie in [s, e), so there are
\* at most (e - s) / PAGE_SIZE of them; at the end of the range next()
\* returns None and leaves the cursor where it is, as does every later
\* next(); query() never moves the cursor.
C22_IterationTerminates ==
    /\ \A i \in 1 .. Len(trace) :
          /\ trace[i].op = "query" => trace[i].va_after = trace[i].va
          /\ (trace[i].op = "next" /\ trace[i].item # None) =>
                /\ Unwrap(trace[i].item).va = trace[i].va
                /\ trace[i].start <= trace[i].va /\ trace[i].va < trace[i].end
                /\ trace[i].va_after = trace[i].va + PAGE_SIZE
                /\ trace[i].got = Unwrap(trace[i].item).frame
          /\ (trace[i].op = "next" /\ trace[i].item = None) =>
                /\ trace[i].va = trace[i].end
                /\ trace[i].va_after = trace[i].va
                /\ trace[i].got = NoFrame
    /\ \A i \in Yields, j \in Yields :
          i < j => Unwrap(trace[i].item).va < Unwrap(trace[j].item).va
    /\ \A i \in 1 .. Len(trace) :
          PAGE_SIZE * Cardinality({k \in Yields : k <= i})
              <= trace[i].end - trace[i].start
    /\ \A i \in 1 .. Len(trace), j \in 1 .. Len(trace) :
          (i < j /\ trace[i].op = "next" /\ trace[i].item = None
                 /\ trace[j].op = "next") => trace[j].item = None

\* C22 witness: a Cursor over two slots yielded a mapped and an unmapped
\* slot and then None twice.
C22_Witness ==
    /\ Len(trace) = 4
    /\ \A i \in 1 .. 4 : trace[i].op = "next"
    /\ \A i \in 1 .. 2 : trace[i].item # None
    /\ \E i \in 1 .. 2 : Unwrap(trace[i].item).mapped
    /\ \E i \in 1 .. 2 : ~Unwrap(trace[i].item).mapped
    /\ trace[3].item = None /\ trace[4].item = None

(***************************************************************************)
(* Claims about concurrent activation, checked under SpecActivate.         *)
(***************************************************************************)
\* The CPU is inside activate(), holds the lock of the VmSpace it activates
\* and waits for the lock of the VmSpace it activated last.
HoldsAndWaits(cpu, held, wanted) ==
    /\ pc[cpu] = "lock_last"
    /\ self[cpu] = held
    /\ activated_cpus_lock[held] = cpu
    /\ last[cpu] = wanted

\* C23: concurrent activate() calls never lock each other out: there is no
\* state where one CPU holds the activation-set lock of a VmSpace A and
\* waits for the lock of B while another CPU holds the lock of B and waits
\* for the lock of A.
C23_NoLockCycle ==
    ~ \E c0 \in CPUs, c1 \in CPUs, a \in VmSpaces, b \in VmSpaces :
         /\ c0 # c1
         /\ a # b
         /\ HoldsAndWaits(c0, a, b)
         /\ HoldsAndWaits(c1, b, a)

C25_MapFlushesItsRange ==
    \A i \in 1 .. Len(trace) :
        trace[i].op = "map" =>
            LET log == trace[i].log
                a   == trace[i].va
            IN /\ Entries(log, "tlb_flush_addr_range") = {Len(log)}
               /\ log[Len(log)] = tlb_flush_addr_range(a, a + PAGE_SIZE)
               /\ Entries(log, "tlb_flush_addr") = {}
               /\ Entries(log, "tlb_flush_all_excluding_global") = {}
               /\ \E k \in 1 .. (Len(log) - 1) : log[k] = pt_map(a, trace[i].frame)
               /\ Flushes(log) = 1
               /\ trace[i].va_after = a + PAGE_SIZE

\* C25 witness: map() was called at the second page, on a slot that held a
\* mapping, and at the first page on an empty slot.
C25_Witness ==
    /\ \E i \in 1 .. Len(trace) :
          /\ trace[i].op = "map"
          /\ trace[i].va = PAGE_SIZE
          /\ trace[i].before.mapped
          /\ Len(trace[i].log) = 3
    /\ \E i \in 1 .. Len(trace) :
          /\ trace[i].op = "map"
          /\ trace[i].va = 0
          /\ ~trace[i].before.mapped

\* The slots of the range [a, a + len).
InRange(a, len) == {va \in Slots : a <= va /\ va < a + len}

\* C26: protect(len, op) started at address a applies op exactly once to the
\* property of every mapped slot in [a, a + len) and does nothing else: a
\* gap stays NotMapped, every mapping keeps its frame, and no frame handle
\* is released.
C26_ProtectAppliesOpOnce ==
    [][\A t \in VmThreads, len \in TlbLens, op \in ProtectOps :
          (protect(t, len, op) /\ len % PAGE_SIZE = 0) =>
              LET v == th[t].vm
              IN /\ \A va \in InRange(th[t].va, len) :
                       IF pt[v][va].mapped
                       THEN pt'[v][va] = Mapped(pt[v][va].frame,
                                                ApplyOp(op, pt[v][va].prop))
                       ELSE pt'[v][va] = NotMapped
                 /\ handles' = handles
                 /\ FRAME_ALLOCATOR' = FRAME_ALLOCATOR
                 /\ th'[t].frame = th[t].frame
      ]_vars

\* C26 witness: a protect() over 32 pages toggled W in a range with one
\* mapping and one gap; the mapping is now read-only.
C26_Witness ==
    /\ trace # <<>>
    /\ LastCall.op = "protect"
    /\ LastCall.prop = {"toggle_W"}
    /\ LastCall.va = 0
    /\ LastCall.len = 32 * PAGE_SIZE
    /\ Cardinality(LastCall.found) = 1
    /\ \E va \in Slots :
          /\ pt[LastCall.v][va].mapped
          /\ ~("W" \in pt[LastCall.v][va].prop)

\* C27: unmap(len) and protect(len, op) started at address a leave every
\* mapping outside [a, a + len) as it was and leave the cursor at exactly
\* a + len.
C27_RangeOnly ==
    [][\A t \in VmThreads, len \in TlbLens :
          ((unmap(t, len) \/ \E op \in ProtectOps : protect(t, len, op))
            /\ len % PAGE_SIZE = 0) =>
              /\ \A v \in VmSpaces, va \in Slots :
                    (v # th[t].vm \/ va \notin InRange(th[t].va, len)) =>
                        pt'[v][va] = pt[v][va]
              /\ th'[t].va = th[t].va + len
      ]_vars

\* C27 witness: with both pages mapped, unmap(PAGE_SIZE) at the first page
\* took its mapping and left the cursor at the second page, which is still
\* mapped.
C27_Witness ==
    /\ Len(trace) = 3
    /\ trace[1].op = "map" /\ trace[2].op = "map"
    /\ trace[3].op = "unmap"
    /\ trace[3].va = 0
    /\ trace[3].len = PAGE_SIZE
    /\ trace[3].va_after = PAGE_SIZE
    /\ ~pt[1][0].mapped
    /\ pt[1][PAGE_SIZE].mapped

\* The log entry is a TLB invalidation that covers address va.
Covers(entry, va) ==
    \/ entry[1] = "tlb_flush_all_excluding_global"
    \/ /\ entry[1] \in {"tlb_flush_addr", "tlb_flush_addr_range"}
       /\ entry[2] <= va
       /\ va < entry[3]

\* C28: unmap(len) releases the handle of a frame it removed only after it
\* has issued the TLB invalidation that covers the frame's address, for
\* every len: in the log of every unmap() each drop of a page comes after a
\* flush covering the page's address.
C28_FlushBeforeRelease ==
    \A i \in 1 .. Len(trace) :
        trace[i].op = "unmap" =>
            LET log == trace[i].log
            IN \A k \in Entries(log, "drop") :
                  \E j \in 1 .. (k - 1) : Covers(log[j], log[k][2])

\* The CPUs whose last-activated record is VmSpace v.
RecordedOn(v) == {c \in CPUs : LAST_ACTIVATED_VM_SPACE[c] = v}

\* C30: the VmSpace recorded as last activated on a CPU is never freed while
\* it is recorded: the strong count of every VmSpace is the reference of its
\* process, if it still holds one, plus one for every CPU whose record
\* points to it; a step that records a VmSpace on a CPU takes one reference
\* to it and a step that evicts a record releases one of the evicted
\* VmSpace; an activate() of the VmSpace already recorded changes no count.
C30_RecordHoldsReference ==
    /\ [](\A v \in VmSpaces :
            /\ strong[v] = (IF v \in owned THEN 1 ELSE 0)
                               + Cardinality(RecordedOn(v))
            /\ RecordedOn(v) # {} => strong[v] >= 1)
    /\ [][\A c \in CPUs :
            LET old == LAST_ACTIVATED_VM_SPACE[c]
                new == LAST_ACTIVATED_VM_SPACE'[c]
            IN /\ (new # old /\ owned' = owned) =>
                     /\ strong'[new] = strong[new] + 1
                     /\ old # NULL => strong'[old] = strong[old] - 1
                     /\ \A v \in VmSpaces \ {old, new} : strong'[v] = strong[v]
               /\ \A v \in VmSpaces :
                     (activate_lock_self(c, v) /\ old = v) => strong' = strong
         ]_vars

\* C30 witness: a CPU has switched to a VmSpace whose process has released
\* it since: the record holds the only reference; the VmSpace the CPU had
\* activated before, also released by its process, was freed by the
\* eviction.
C30_Witness ==
    \E c \in CPUs :
        /\ pc[c] = "idle"
        /\ last[c] # NULL
        /\ LAST_ACTIVATED_VM_SPACE[c] = self[c]
        /\ self[c] \notin owned
        /\ strong[self[c]] = 1
        /\ last[c] \notin owned
        /\ strong[last[c]] = 0

(***************************************************************************)
(* Claims about fork_copy_on_write() and cursors, checked under            *)
(* SpecForkSteps.                                                          *)
(***************************************************************************)
\* The thread is inside fork_copy_on_write(), between its protect pass and
\* its clone.
Forking(t) == th[t].pc = "live" /\ th[t].res = "forking"

\* C29: fork_copy_on_write() is atomic with respect to cursors: it does not
\* start while a cursor of the parent is alive; from its protect pass to
\* its clone it holds one cursor over the whole user range, so that no other
\* cursor of the parent is alive and the parent's table does not change in
\* between; and the child's table equals the parent's in the state the
\* clone returns in, with no mapping writable.
C29_ForkAtomic ==
    [][\A t \in Threads :
          /\ (~Forking(t) /\ Forking(t)') =>
                /\ \A u \in Threads \ {t} :
                      ~(th[u].pc = "live" /\ th[u].vm = th'[t].vm)
                /\ th'[t].start = 0
                /\ th'[t].end = MAX_USERSPACE_VADDR
          /\ Forking(t) =>
                /\ \A u \in Threads \ {t} :
                      ~(th[u].pc = "live" /\ th[u].vm = th[t].vm)
                /\ \A va \in Slots : ~("W" \in pt[th[t].vm][va].prop)
          /\ (Forking(t) /\ Forking(t)') =>
                /\ pt'[th[t].vm] = pt[th[t].vm]
                /\ th'[t] = th[t]
          /\ (Forking(t) /\ ~Forking(t)') =>
                /\ th'[t].res = "forked"
                /\ pt'[th'[t].child] = pt'[th[t].vm]
                /\ pt'[th[t].vm] = pt[th[t].vm]
                /\ \A va \in Slots : ~("W" \in pt'[th'[t].child][va].prop)
      ]_vars

\* C29 witness: the fork has returned a child with a mapping while another
\* thread, which asked for a cursor of the parent during the fork, is still
\* waiting for it.
C29_Witness ==
    /\ th[1].res = "forked"
    /\ th[1].child = 2
    /\ 2 \in owned
    /\ th[2].pc = "blocked"
    /\ th[2].vm = 1
    /\ pt[2][0].mapped
    /\ pt[2] = pt[1]

(***************************************************************************)
(* Claims about frame conservation, checked under SpecAlloc.               *)
(***************************************************************************)
\* The frames that have a live handle.
Held == {f \in Frames : handles[f] > 0}

\* C31: alloc_continuous(n), n >= 1, conserves frames: every frame the call
\* takes out of the free pool is owned by one of the n handles it returns,
\* so that the free frames and the held frames together are the same before
\* and after the call and releasing the n handles restores the free pool.
C31_AllocContinuousConservesFrames ==
    [][\A n \in 1 .. MaxCount :
         (alloc_continuous(n) /\ FRAME_ALLOCATOR.is_completed) =>
            /\ \A f \in FreePool \ FreePool' :
                  /\ handles'[f] = 1
                  /\ \E i \in 1 .. Len(ret'.frames) : ret'.frames[i] = f * PAGE_SIZE
            /\ FreePool' \cup Held' = FreePool \cup Held
      ]_vars

(***************************************************************************)
(* Claims about the backlog of a listening socket, checked under           *)
(* SpecListen.                                                             *)
(***************************************************************************)
\* C32: whenever the Mutex of the incoming queue is not held, the pollee of
\* the Backlog has IN set exactly when the queue is not empty; a poll()
\* whose mask asks for IN reports IN exactly when a connection is pending.
C32_InIffPending ==
    /\ [](incoming_conns_lock = NoThread =>
            ("IN" \in pollee <=> incoming_conns # <<>>))
    /\ [][\A t \in NetThreads :
            (poll(t) /\ "IN" \in call[t].mask) =>
                ("IN" \in call'[t].events <=> incoming_conns # <<>>)
         ]_vars

\* C32 witness: with the Mutex free, a poll() has reported IN after another
\* thread took one of two pending connections; one is still pending.
C32_Witness ==
    /\ incoming_conns_lock = NoThread
    /\ Len(incoming_conns) = 1
    /\ "IN" \in pollee
    /\ \E t \in NetThreads, u \in NetThreads :
          /\ call[t].pc = "idle" /\ call[t].op = "poll"
          /\ call[t].events = {"IN"}
          /\ call[u].pc = "idle" /\ call[u].op = "pop_incoming"
          /\ call[u].res = "Ok"
          /\ call[u].conn = 1
          /\ incoming_conns = <<2>>

\* C33: push_incoming(), with the Mutex held, takes a connection only when
\* the queue is shorter than the limit it loads; when the queue is as long
\* as the limit or longer it returns EAGAIN and leaves the queue, the
\* events of the pollee and the connection pairs as they are. pop_incoming()
\* on an empty queue returns EAGAIN and leaves the queue empty.
C33_BacklogBound ==
    [][\A t \in NetThreads :
          /\ push_incoming(t) =>
                /\ incoming_conns_lock = t
                /\ IF Len(incoming_conns) >= backlog
                   THEN /\ call'[t].res = EAGAIN
                        /\ call'[t].pc = "idle"
                        /\ incoming_conns' = incoming_conns
                        /\ pollee' = pollee
                        /\ pairs' = pairs
                   ELSE /\ Len(incoming_conns) < backlog
                        /\ Len(incoming_conns') = Len(incoming_conns) + 1
                        /\ pairs' = pairs + 1
          /\ (pop_incoming(t) /\ incoming_conns = <<>>) =>
                /\ incoming_conns' = <<>>
                /\ call'[t].conn = NoConn
          /\ (pop_incoming_del_events(t) /\ call[t].conn = NoConn) =>
                /\ call'[t].res = EAGAIN
                /\ incoming_conns' = <<>>
                /\ incoming_conns = <<>>
      ]_vars

\* C33 witness: a push_incoming() has returned EAGAIN with two connections
\* pending and the limit lowered to one; a pop_incoming() of another thread
\* had returned EAGAIN on the empty queue before.
C33_Witness ==
    /\ Len(incoming_conns) = 2
    /\ backlog = 1
    /\ incoming_conns_lock = NoThread
    /\ "IN" \in pollee
    /\ \E t \in NetThreads, u \in NetThreads :
          /\ call[t].pc = "idle" /\ call[t].op = "push_incoming"
          /\ call[t].res = EAGAIN
          /\ call[u].pc = "idle" /\ call[u].op = "pop_incoming"
          /\ call[u].res = EAGAIN

(***************************************************************************)
(* Claims about the binding of a datagram socket, checked under            *)
(* SpecDatagram.                                                           *)
(***************************************************************************)
\* C34: under every interleaving of bind(), connect() and sendmsg(), inner
\* goes from Unbound to Bound and never back, at most one binding is made
\* (ephemeral binds racing through the slow path bind once), the local
\* endpoint of a bound socket never changes, bind() on a bound socket
\* returns EINVAL and changes nothing, and a bind that fails leaves the
\* socket Unbound.
C34_BoundAtMostOnce ==
    /\ [](bindings <= 1 /\ (bindings = 1 <=> inner.state = "Bound"))
    /\ [][(inner.state = "Bound") =>
             (inner'.state = "Bound" /\ inner'.local = inner.local)]_vars
    /\ [][\A t \in NetThreads :
            /\ (inner.state = "Bound" /\ \E ok \in BOOLEAN : bind(t, ok)) =>
                 (call'[t].res = EINVAL /\ inner' = inner)
            /\ (/\ inner.state = "Unbound"
                /\ \/ \E ok \in BOOLEAN : bind(t, ok)
                   \/ \E ep \in EphemeralEndpoints, ok \in BOOLEAN :
                         try_bind_ephemeral(t, ep, ok)
                /\ call'[t].res \notin {"", "Ok"}) =>
                 (inner' = Unbound /\ bindings' = bindings)
         ]_vars

\* C34 witness: two threads, one in connect() and one in sendmsg(), both
\* found the socket Unbound on the fast path and both went through the slow
\* path; the socket is bound once and both calls returned Ok.
C34_Witness ==
    /\ inner.state = "Bound"
    /\ bindings = 1
    /\ inner_lock = NoThread
    /\ \E t \in NetThreads, u \in NetThreads :
          /\ call[t] = [SockIdle EXCEPT !.op = "connect", !.slow = TRUE,
                                        !.endpoint = Some("remote1"),
                                        !.res = "Ok"]
          /\ call[u].op = "sendmsg" /\ call[u].pc = "idle"
          /\ call[u].slow /\ call[u].res = "Ok"
          /\ inner.remote = Some("remote1")

=============================================================================
